---- MODULE Spec2Model ----
(***************************************************************************)
(* Model of the MAVLink vehicle-protocol client of flightpath-server       *)
(* (src/internal/mavlink/client.go): one Client instance, its inbound      *)
(* message handlers (run one at a time by the listen task, each under the  *)
(* client lock), and the caller-side operations, split at every point      *)
(* where the code releases the lock or blocks.                             *)
(*                                                                         *)
(* Time is a clock `now` counted in whole seconds.                         *)
(***************************************************************************)
EXTENDS Integers, Sequences, FiniteSets, TLC

(***************************************************************************)
(* Bounds of the model.                                                    *)
(***************************************************************************)
NumCallers == 2        \* concurrent caller tasks
NumCommandCallers == 1 \* of them, those that issue commands and state reads
MaxWaypoints == 2      \* longest waypoint list handed to UploadMission
MaxAckType == 1        \* MISSION_ACK result codes 0..MaxAckType
MaxSysID == 2          \* sender system ids 1..MaxSysID
MaxTime == 30          \* the clock stops advancing here
UploadTick == 30       \* clock step of the mission-upload specification
ConnTick == 1          \* clock step of the connection specification
MaxConnTime == 5       \* the clock stops here in the connection specification
NumHandlers == 2       \* concurrent Connect requests of the connection service

(***************************************************************************)
(* Program constants.                                                      *)
(***************************************************************************)
MAV_MISSION_ACCEPTED == 0
MAV_MODE_FLAG_SAFETY_ARMED == 128
UploadTimeoutSec == 30
HeartbeatStaleSec == 3
CloseTimeoutSec == 2
PX4_MAIN_MODE_AUTO == 4

Callers == 1..NumCallers
CommandCallers == {p \in Callers : p <= NumCommandCallers}
NoChan == 0            \* a nil channel reference

\* a waypoint: its Sequence field and its latitude in degrees
Waypoint(seq, lat) == [Sequence |-> seq, Latitude |-> lat]

\* the waypoint lists handed to UploadMission: of every length up to
\* MaxWaypoints, one with the Sequence fields numbered from 0 and one with
\* them left at 0 (the default of the field); the i-th waypoint is at
\* latitude i degrees, so that a waypoint of a list is known by its position
WaypointLists ==
    UNION {{[i \in 1..n |-> Waypoint(i - 1, i)], [i \in 1..n |-> Waypoint(0, i)]} :
              n \in 0..MaxWaypoints}

AckTypes == 0..MaxAckType
SysIDs == 1..MaxSysID

\* base_mode values of inbound heartbeats: with and without the armed bit
BaseModes == {81, 81 + MAV_MODE_FLAG_SAFETY_ARMED}
\* custom_mode values of inbound heartbeats
CustomModes == {PX4_MAIN_MODE_AUTO}
\* arguments of SetMode, Takeoff, GoToPosition and StartMission
CommandArgs == {1}

\* bitwise AND of two naturals
RECURSIVE BitAnd(_, _)
BitAnd(a, b) ==
    IF a = 0 \/ b = 0
    THEN 0
    ELSE (a % 2) * (b % 2) + 2 * BitAnd(a \div 2, b \div 2)

\* error values returned by the client or carried by the completion channel
Err(kind, code) == [kind |-> kind, code |-> code]
NilErr == Err("nil", 0)
NoResult == Err("none", 0)

\* the step just taken: an operation of caller `arg`, or a handler and the
\* sequence number or result code of its message
Op(name, arg) == [op |-> name, arg |-> arg]

VARIABLES
    now,            \* wall clock, seconds
    connected,      \* Client.connected
    armed,          \* Client.armed
    systemID,       \* Client.systemID
    lastHeartbeat,  \* Client.lastHeartbeat
    telemetry,      \* Client.telemetry
    missionState,   \* Client.missionState
    chans,          \* buffer of the completion channel made by each caller
    fulfilled,      \* sends completed on each caller's channel since it was made
    listen,         \* the listen task: "running", or "blocked" in a channel send
    pc,             \* position of each caller task
    local,          \* local variables of each caller task
    result,         \* what the latest caller step returned, and to which caller
    sent,           \* transport writes attempted by the last step
    logged,         \* log calls made by the last step (those the model records)
    codec,          \* the last application of the mode codec
    handling,       \* the telemetry message whose handler holds the lock
    polled,         \* the calls of IsConnected each WaitForConnection call made
    shutdown,       \* the stop and done channels, the sender task and the node
    service,        \* the service layer: its current client and the clients made
    last            \* the operation or handler the last step ran, with its argument

\* a caller step that ends the call of caller p returns r to it; the value
\* stays on record until the next step of any caller
Return(p, r) == result' = [q \in Callers |-> IF q = p THEN r ELSE NoResult]
\* a caller step that does not end its call
NoReturn == result' = [q \in Callers |-> NoResult]

clientVars == <<connected, armed, systemID, lastHeartbeat, telemetry, missionState>>
chanVars == <<chans, fulfilled, listen>>
callerVars == <<pc, local, result>>
\* state of the parts of the program around the client's protocol handlers
extVars == <<codec, handling, polled, shutdown, service>>
vars == <<now, connected, armed, systemID, lastHeartbeat, telemetry,
          missionState, chans, fulfilled, listen, pc, local, result, sent,
          logged, codec, handling, polled, shutdown, service,
          last>>

----------------------------------------------------------------------------
(***************************************************************************)
(* Construction (NewClient).                                               *)
(***************************************************************************)
InitMissionState ==
    [Uploading |-> FALSE,
     Waypoints |-> <<>>,
     CurrentIndex |-> 0,
     TotalCount |-> 0,
     UploadComplete |-> NoChan,
     CurrentWaypoint |-> 0,
     TotalWaypoints |-> 0,
     MissionActive |-> FALSE]

\* a float64 obtained by dividing the integer n by d
Ratio(n, d) == [num |-> n, den |-> d]

\* TelemetryData{LastUpdate: time.Now()}
InitTelemetry ==
    [Latitude |-> Ratio(0, 1), Longitude |-> Ratio(0, 1), Altitude |-> Ratio(0, 1),
     VelocityX |-> Ratio(0, 1), VelocityY |-> Ratio(0, 1), VelocityZ |-> Ratio(0, 1),
     Roll |-> Ratio(0, 1), Pitch |-> Ratio(0, 1), Yaw |-> Ratio(0, 1),
     Heading |-> Ratio(0, 1), GroundSpeed |-> Ratio(0, 1),
     VerticalSpeed |-> Ratio(0, 1),
     BatteryVoltage |-> Ratio(0, 1), BatteryRemaining |-> 0,
     BatteryCurrent |-> Ratio(0, 1),
     GPSAccuracy |-> Ratio(0, 1), SatelliteCount |-> 0,
     SensorsHealthy |-> FALSE,
     CustomMode |-> 0, BaseMode |-> 0,
     LastUpdate |-> 0]

\* no telemetry handler is running
NoHandling == [op |-> "none", msg |-> <<>>, before |-> <<>>]

\* WaitForConnection has polled nothing yet: the time of its latest poll, what
\* the poll returned, and whether a poll made with the deadline not yet
\* passed has returned true
NoPolls == [at |-> 0, value |-> FALSE, inTime |-> FALSE]

\* lines 188-196: both channels open, the listen and sender tasks started, the
\* node open
InitShutdown ==
    [stopHeartbeat |-> "open", heartbeatDone |-> "open", sender |-> "running",
     listener |-> "running", node |-> "open"]

\* NewDependencies: no client held, none made, none closed; no response yet;
\* no Connect request holds a client it is still connecting
InitService ==
    [current |-> 0, made |-> 0, closed |-> {}, response |-> "none",
     panicked |-> FALSE, pending |-> [h \in 1..NumHandlers |-> 0]]

InitLocal == [systemID |-> 0, count |-> 0, uploadComplete |-> NoChan,
              timer |-> 0, cmd |-> "none", arg |-> 0]

\* no codec call yet: the operation, the generic mode encoded, the generic mode
\* held or decoded, the raw value, and the encoder's error
InitCodec == [op |-> "none", arg |-> "none", mode |-> "none", raw |-> 0, err |-> FALSE]

Init ==
    /\ now = 0
    /\ connected = FALSE
    /\ armed = FALSE
    /\ systemID = 0
    /\ lastHeartbeat = 0
    /\ telemetry = InitTelemetry
    /\ missionState = InitMissionState
    /\ chans = [p \in Callers |-> <<>>]
    /\ fulfilled = [p \in Callers |-> 0]
    /\ listen = "running"
    /\ pc = [p \in Callers |-> "idle"]
    /\ local = [p \in Callers |-> InitLocal]
    /\ result = [p \in Callers |-> NoResult]
    /\ sent = <<>>
    /\ logged = <<>>
    /\ codec = InitCodec
    /\ handling = NoHandling
    /\ polled = [p \in Callers |-> NoPolls]
    /\ shutdown = InitShutdown
    /\ service = InitService
    /\ last = Op("NewClient", 0)

----------------------------------------------------------------------------
(***************************************************************************)
(* Transport writes.  A write is recorded with its outcome.                *)
(***************************************************************************)
Write(msg, ok) == [msg |-> msg, ok |-> ok]

MissionCountMsg(sys, n) ==
    [type |-> "MISSION_COUNT", TargetSystem |-> sys, Count |-> n]

\* sendMissionItem: the item carries the waypoint's own Sequence field
sendMissionItem(wp) ==
    [type |-> "MISSION_ITEM_INT", TargetSystem |-> systemID,
     Seq |-> wp.Sequence, X |-> wp.Latitude * 10000000]

----------------------------------------------------------------------------
(***************************************************************************)
(* The client lock.  A handler that blocks in a channel send keeps the     *)
(* lock, so nothing that takes the lock runs while the listen task is      *)
(* blocked.                                                                *)
(***************************************************************************)
LockFree == listen = "running"

(***************************************************************************)
(* UploadMission, caller p.                                                *)
(***************************************************************************)

\* UploadMission without the test of the uploading flag (lines 577-580)
UploadMission_NoReject(p, waypoints) ==
    /\ pc[p] = "idle"
    /\ LockFree
    /\ last' = Op("UploadMission", p)
    /\ UNCHANGED extVars
    /\ logged' = <<>>
    /\ sent' = <<>>
    /\ missionState' = [missionState EXCEPT
                          !.Uploading = TRUE,
                          !.Waypoints = waypoints,
                          !.TotalCount = Len(waypoints),
                          !.CurrentIndex = 0,
                          !.UploadComplete = p]
    /\ chans' = [chans EXCEPT ![p] = <<>>]
    /\ fulfilled' = [fulfilled EXCEPT ![p] = 0]
    /\ local' = [local EXCEPT ![p] =
                    [InitLocal EXCEPT !.systemID = systemID,
                                      !.count = Len(waypoints),
                                      !.uploadComplete = p]]
    /\ pc' = [pc EXCEPT ![p] = "send_count"]
    /\ NoReturn
    /\ UNCHANGED <<now, connected, armed, systemID, lastHeartbeat, telemetry,
                   listen>>

\* lines 575-590: under the lock, reject or open a session.  The channel a
\* caller makes is named by the caller: its previous channel is unreachable
\* once this step has overwritten missionState.UploadComplete.
UploadMission(p, waypoints) ==
    /\ pc[p] = "idle"
    /\ LockFree
    /\ last' = Op("UploadMission", p)
    /\ UNCHANGED extVars
    /\ logged' = <<>>
    /\ sent' = <<>>
    /\ IF missionState.Uploading
       THEN /\ Return(p, Err("upload_in_progress", 0))
            /\ UNCHANGED <<missionState, chans, fulfilled, pc, local>>
       ELSE /\ missionState' = [missionState EXCEPT
                                  !.Uploading = TRUE,
                                  !.Waypoints = waypoints,
                                  !.TotalCount = Len(waypoints),
                                  !.CurrentIndex = 0,
                                  !.UploadComplete = p]
            /\ chans' = [chans EXCEPT ![p] = <<>>]
            /\ fulfilled' = [fulfilled EXCEPT ![p] = 0]
            /\ local' = [local EXCEPT ![p] =
                            [InitLocal EXCEPT !.systemID = systemID,
                                              !.count = Len(waypoints),
                                              !.uploadComplete = p]]
            /\ pc' = [pc EXCEPT ![p] = "send_count"]
            /\ NoReturn
    /\ UNCHANGED <<now, connected, armed, systemID, lastHeartbeat, telemetry,
                   listen>>

\* lines 594-601 and 609-612 (the select is entered and its timer made):
\* send MISSION_COUNT
UploadMission_SendCount(p, ok) ==
    /\ pc[p] = "send_count"
    /\ last' = Op("UploadMission_SendCount", p)
    /\ UNCHANGED extVars
    /\ logged' = <<>>
    /\ sent' = <<Write(MissionCountMsg(local[p].systemID, local[p].count), ok)>>
    /\ IF ok
       THEN /\ pc' = [pc EXCEPT ![p] = "select"]
            /\ local' = [local EXCEPT ![p].timer = now + UploadTimeoutSec]
       ELSE /\ pc' = [pc EXCEPT ![p] = "count_failed"]
            /\ UNCHANGED local
    /\ NoReturn
    /\ UNCHANGED <<now, clientVars, chanVars>>

\* the return after a failed MISSION_COUNT send without the reset of the flag
UploadMission_CountFailed_KeepsFlag(p) ==
    /\ pc[p] = "count_failed"
    /\ LockFree
    /\ last' = Op("UploadMission_CountFailed", p)
    /\ UNCHANGED extVars
    /\ logged' = <<>>
    /\ pc' = [pc EXCEPT ![p] = "idle"]
    /\ Return(p, Err("count_send_failed", 0))
    /\ local' = [local EXCEPT ![p] = InitLocal]
    /\ sent' = <<>>
    /\ UNCHANGED <<now, clientVars, chanVars>>

\* lines 601-606: after a failed send, reset the flag and return the error
UploadMission_CountFailed(p) ==
    /\ pc[p] = "count_failed"
    /\ LockFree
    /\ last' = Op("UploadMission_CountFailed", p)
    /\ UNCHANGED extVars
    /\ logged' = <<>>
    /\ missionState' = [missionState EXCEPT !.Uploading = FALSE]
    /\ pc' = [pc EXCEPT ![p] = "idle"]
    /\ Return(p, Err("count_send_failed", 0))
    /\ local' = [local EXCEPT ![p] = InitLocal]
    /\ sent' = <<>>
    /\ UNCHANGED <<now, connected, armed, systemID, lastHeartbeat, telemetry,
                   chanVars>>

\* lines 610-611: the select receives from the completion channel
UploadMission_Receive(p) ==
    /\ pc[p] = "select"
    /\ chans[local[p].uploadComplete] # <<>>
    /\ last' = Op("UploadMission_Receive", p)
    /\ UNCHANGED extVars
    /\ logged' = <<>>
    /\ Return(p, Head(chans[local[p].uploadComplete]))
    /\ chans' = [chans EXCEPT ![local[p].uploadComplete] = Tail(@)]
    /\ pc' = [pc EXCEPT ![p] = "idle"]
    /\ local' = [local EXCEPT ![p] = InitLocal]
    /\ sent' = <<>>
    /\ UNCHANGED <<now, clientVars, fulfilled, listen>>

\* the timer branch taken without waiting for the timer
UploadMission_TimerFired_Early(p) ==
    /\ pc[p] = "select"
    /\ last' = Op("UploadMission_TimerFired", p)
    /\ UNCHANGED extVars
    /\ logged' = <<>>
    /\ pc' = [pc EXCEPT ![p] = "timed_out"]
    /\ sent' = <<>>
    /\ NoReturn
    /\ UNCHANGED <<now, clientVars, chanVars, local>>

\* line 612: the select takes the time.After branch
UploadMission_TimerFired(p) ==
    /\ pc[p] = "select"
    /\ now >= local[p].timer
    /\ last' = Op("UploadMission_TimerFired", p)
    /\ UNCHANGED extVars
    /\ logged' = <<>>
    /\ pc' = [pc EXCEPT ![p] = "timed_out"]
    /\ sent' = <<>>
    /\ NoReturn
    /\ UNCHANGED <<now, clientVars, chanVars, local>>

\* the timeout return without the reset of the uploading flag
UploadMission_Timeout_KeepsFlag(p) ==
    /\ pc[p] = "timed_out"
    /\ LockFree
    /\ last' = Op("UploadMission_Timeout", p)
    /\ UNCHANGED extVars
    /\ logged' = <<>>
    /\ pc' = [pc EXCEPT ![p] = "idle"]
    /\ Return(p, Err("timeout", 0))
    /\ local' = [local EXCEPT ![p] = InitLocal]
    /\ sent' = <<>>
    /\ UNCHANGED <<now, clientVars, chanVars>>

\* lines 613-616: reset the flag under the lock and return the timeout error
UploadMission_Timeout(p) ==
    /\ pc[p] = "timed_out"
    /\ LockFree
    /\ last' = Op("UploadMission_Timeout", p)
    /\ UNCHANGED extVars
    /\ logged' = <<>>
    /\ missionState' = [missionState EXCEPT !.Uploading = FALSE]
    /\ pc' = [pc EXCEPT ![p] = "idle"]
    /\ Return(p, Err("timeout", 0))
    /\ local' = [local EXCEPT ![p] = InitLocal]
    /\ sent' = <<>>
    /\ UNCHANGED <<now, connected, armed, systemID, lastHeartbeat, telemetry,
                   chanVars>>

----------------------------------------------------------------------------
(***************************************************************************)
(* Inbound handlers (the listen task runs them one at a time).             *)
(***************************************************************************)

\* `make(chan error, 1)`
ChanCap == 1

\* the channel made without a buffer: a send completes only when a caller is
\* receiving from the channel
CanSend_Unbuffered(ch) ==
    \E p \in Callers : pc[p] = "select" /\ local[p].uploadComplete = ch

\* does a send on channel ch complete at once?
CanSend(ch) == Len(chans[ch]) < ChanCap

\* the handler sending the waypoint at CurrentIndex instead of the requested one
handleMissionRequestInt_CurrentIndex(seq, ok) ==
    /\ LockFree
    /\ last' = Op("handleMissionRequestInt", seq)
    /\ UNCHANGED extVars
    /\ logged' = <<>>
    /\ IF ~missionState.Uploading \/ seq >= Len(missionState.Waypoints)
       THEN /\ sent' = <<>>
            /\ UNCHANGED <<missionState, chanVars>>
       ELSE /\ sent' = <<Write(sendMissionItem(
                            missionState.Waypoints[missionState.CurrentIndex + 1]), ok)>>
            /\ IF ok
               THEN UNCHANGED <<missionState, chanVars>>
               ELSE /\ chans' = [chans EXCEPT ![missionState.UploadComplete] =
                                    Append(@, Err("item_send_failed", 0))]
                    /\ fulfilled' = [fulfilled EXCEPT
                                       ![missionState.UploadComplete] = @ + 1]
                    /\ missionState' = [missionState EXCEPT
                                          !.UploadComplete = NoChan,
                                          !.Uploading = FALSE]
                    /\ UNCHANGED listen
    /\ UNCHANGED <<now, connected, armed, systemID, lastHeartbeat, telemetry,
                   callerVars>>

\* the handler only logging a failed item send (lines 450-455 left out)
handleMissionRequestInt_LogOnly(seq, ok) ==
    /\ LockFree
    /\ last' = Op("handleMissionRequestInt", seq)
    /\ UNCHANGED extVars
    /\ logged' = <<>>
    /\ IF ~missionState.Uploading \/ seq >= Len(missionState.Waypoints)
       THEN sent' = <<>>
       ELSE sent' = <<Write(sendMissionItem(missionState.Waypoints[seq + 1]), ok)>>
    /\ UNCHANGED <<now, clientVars, chanVars, callerVars>>

\* the handler ending the session on a request out of range
handleMissionRequestInt_RangeFails(seq, ok) ==
    /\ LockFree
    /\ last' = Op("handleMissionRequestInt", seq)
    /\ UNCHANGED extVars
    /\ logged' = <<>>
    /\ IF ~missionState.Uploading
       THEN /\ sent' = <<>>
            /\ UNCHANGED <<missionState, chanVars>>
       ELSE IF seq >= Len(missionState.Waypoints)
       THEN /\ sent' = <<>>
            /\ missionState' = [missionState EXCEPT !.Uploading = FALSE]
            /\ UNCHANGED chanVars
       ELSE /\ sent' = <<Write(sendMissionItem(missionState.Waypoints[seq + 1]), TRUE)>>
            /\ UNCHANGED <<missionState, chanVars>>
    /\ UNCHANGED <<now, connected, armed, systemID, lastHeartbeat, telemetry,
                   callerVars>>

\* lines 430-457.  The send at line 452 blocks, with the lock held, when the
\* channel is full.
handleMissionRequestInt(seq, ok) ==
    /\ LockFree
    /\ last' = Op("handleMissionRequestInt", seq)
    /\ UNCHANGED extVars
    /\ logged' = <<>>
    /\ IF ~missionState.Uploading
       THEN /\ sent' = <<>>
            /\ UNCHANGED <<missionState, chanVars>>
       ELSE IF seq >= Len(missionState.Waypoints)
       THEN /\ sent' = <<>>
            /\ UNCHANGED <<missionState, chanVars>>
       ELSE /\ sent' = <<Write(sendMissionItem(missionState.Waypoints[seq + 1]), ok)>>
            /\ IF ok
               THEN UNCHANGED <<missionState, chanVars>>
               ELSE IF missionState.UploadComplete = NoChan
               THEN /\ missionState' = [missionState EXCEPT !.Uploading = FALSE]
                    /\ UNCHANGED chanVars
               ELSE IF CanSend(missionState.UploadComplete)
               THEN /\ chans' = [chans EXCEPT ![missionState.UploadComplete] =
                                    Append(@, Err("item_send_failed", 0))]
                    /\ fulfilled' = [fulfilled EXCEPT
                                       ![missionState.UploadComplete] = @ + 1]
                    /\ missionState' = [missionState EXCEPT
                                          !.UploadComplete = NoChan,
                                          !.Uploading = FALSE]
                    /\ UNCHANGED listen
               ELSE /\ listen' = "blocked"
                    /\ UNCHANGED <<missionState, chans, fulfilled>>
    /\ UNCHANGED <<now, connected, armed, systemID, lastHeartbeat, telemetry,
                   callerVars>>

\* lines 423-427: the bare request is handled as the extended one
handleMissionRequest(seq, ok) == handleMissionRequestInt(seq, ok)

\* every acknowledgment taken for the accepted one
AckError_AlwaysNil(type) == NilErr

\* the error the acknowledgment stands for (lines 469-475)
AckError(type) ==
    IF type = MAV_MISSION_ACCEPTED THEN NilErr ELSE Err("upload_failed", type)

\* the handler testing the channel instead of the uploading flag, and keeping
\* the channel after the send
handleMissionAck_KeepsChannel(type) ==
    /\ LockFree
    /\ last' = Op("handleMissionAck", type)
    /\ UNCHANGED extVars
    /\ logged' = <<>>
    /\ sent' = <<>>
    /\ IF missionState.UploadComplete = NoChan
       THEN UNCHANGED <<missionState, chanVars>>
       ELSE IF CanSend(missionState.UploadComplete)
       THEN /\ chans' = [chans EXCEPT ![missionState.UploadComplete] =
                            Append(@, AckError(type))]
            /\ fulfilled' = [fulfilled EXCEPT
                               ![missionState.UploadComplete] = @ + 1]
            /\ missionState' = [missionState EXCEPT !.Uploading = FALSE]
            /\ UNCHANGED listen
       ELSE /\ missionState' = [missionState EXCEPT !.Uploading = FALSE]
            /\ listen' = "blocked"
            /\ UNCHANGED <<chans, fulfilled>>
    /\ UNCHANGED <<now, connected, armed, systemID, lastHeartbeat, telemetry,
                   callerVars>>

\* lines 460-479.  Uploading is reset (line 467) before the send, which
\* blocks, with the lock held, when the channel is full.
handleMissionAck(type) ==
    /\ LockFree
    /\ last' = Op("handleMissionAck", type)
    /\ UNCHANGED extVars
    /\ logged' = <<>>
    /\ sent' = <<>>
    /\ IF ~missionState.Uploading
       THEN UNCHANGED <<missionState, chanVars>>
       ELSE IF missionState.UploadComplete = NoChan
       THEN /\ missionState' = [missionState EXCEPT !.Uploading = FALSE]
            /\ UNCHANGED chanVars
       ELSE IF CanSend(missionState.UploadComplete)
       THEN /\ chans' = [chans EXCEPT ![missionState.UploadComplete] =
                            Append(@, AckError(type))]
            /\ fulfilled' = [fulfilled EXCEPT
                               ![missionState.UploadComplete] = @ + 1]
            /\ missionState' = [missionState EXCEPT
                                  !.Uploading = FALSE,
                                  !.UploadComplete = NoChan]
            /\ UNCHANGED listen
       ELSE /\ missionState' = [missionState EXCEPT !.Uploading = FALSE]
            /\ listen' = "blocked"
            /\ UNCHANGED <<chans, fulfilled>>
    /\ UNCHANGED <<now, connected, armed, systemID, lastHeartbeat, telemetry,
                   callerVars>>

----------------------------------------------------------------------------
(***************************************************************************)
(* Connection and liveness.                                                *)
(***************************************************************************)

\* the handler taking any set mode flag for the armed bit
handleHeartbeat_AnyFlag(sysID, baseMode, customMode) ==
    /\ LockFree
    /\ last' = Op("handleHeartbeat", sysID)
    /\ UNCHANGED extVars
    /\ connected' = TRUE
    /\ systemID' = sysID
    /\ lastHeartbeat' = now
    /\ armed' = (baseMode # 0)
    /\ telemetry' = [telemetry EXCEPT !.CustomMode = customMode,
                                      !.BaseMode = baseMode]
    /\ logged' = (IF ~connected THEN <<"Connected to system">> ELSE <<>>)
                  \o (IF armed' # armed THEN <<"Armed status changed">> ELSE <<>>)
    /\ sent' = <<>>
    /\ UNCHANGED <<now, missionState, chanVars, callerVars>>

\* the handler logging the armed status at every armed heartbeat
handleHeartbeat_LevelLog(sysID, baseMode, customMode) ==
    /\ LockFree
    /\ last' = Op("handleHeartbeat", sysID)
    /\ UNCHANGED extVars
    /\ connected' = TRUE
    /\ systemID' = sysID
    /\ lastHeartbeat' = now
    /\ armed' = (BitAnd(baseMode, MAV_MODE_FLAG_SAFETY_ARMED) # 0)
    /\ telemetry' = [telemetry EXCEPT !.CustomMode = customMode,
                                      !.BaseMode = baseMode]
    /\ logged' = (IF ~connected THEN <<"Connected to system">> ELSE <<>>)
                  \o (IF armed' THEN <<"Armed status changed">> ELSE <<>>)
    /\ sent' = <<>>
    /\ UNCHANGED <<now, missionState, chanVars, callerVars>>

\* the handler setting the connected flag on the first heartbeat only
handleHeartbeat_FirstOnly(sysID, baseMode, customMode) ==
    /\ LockFree
    /\ last' = Op("handleHeartbeat", sysID)
    /\ UNCHANGED extVars
    /\ connected' = (connected \/ systemID = 0)
    /\ systemID' = sysID
    /\ lastHeartbeat' = now
    /\ armed' = (BitAnd(baseMode, MAV_MODE_FLAG_SAFETY_ARMED) # 0)
    /\ telemetry' = [telemetry EXCEPT !.CustomMode = customMode,
                                      !.BaseMode = baseMode]
    /\ logged' = (IF ~connected THEN <<"Connected to system">> ELSE <<>>)
                  \o (IF armed' # armed THEN <<"Armed status changed">> ELSE <<>>)
    /\ sent' = <<>>
    /\ UNCHANGED <<now, missionState, chanVars, callerVars>>

\* lines 322-345
handleHeartbeat(sysID, baseMode, customMode) ==
    /\ LockFree
    /\ last' = Op("handleHeartbeat", sysID)
    /\ UNCHANGED extVars
    /\ connected' = TRUE
    /\ systemID' = sysID
    /\ lastHeartbeat' = now
    /\ armed' = (BitAnd(baseMode, MAV_MODE_FLAG_SAFETY_ARMED) # 0)
    /\ telemetry' = [telemetry EXCEPT !.CustomMode = customMode,
                                      !.BaseMode = baseMode]
    /\ logged' = (IF ~connected THEN <<"Connected to system">> ELSE <<>>)
                  \o (IF armed' # armed THEN <<"Armed status changed">> ELSE <<>>)
    /\ sent' = <<>>
    /\ UNCHANGED <<now, missionState, chanVars, callerVars>>

\* the staleness test with >= for >
IsConnectedValue_AtThreshold ==
    IF connected /\ (now - lastHeartbeat) >= HeartbeatStaleSec
    THEN FALSE
    ELSE connected

\* lines 727-732: the value IsConnected returns; the call also stores it
IsConnectedValue ==
    IF connected /\ (now - lastHeartbeat) > HeartbeatStaleSec
    THEN FALSE
    ELSE connected

\* the mode in which a step holds c.mu while it reads or writes the client's
\* fields: "Lock" (c.mu.Lock), "RLock" (c.mu.RLock) or "none"
LockMode(op) ==
    CASE op \in {"handleHeartbeat", "handleMissionAck", "handleMissionRequestInt",
                 "handleGlobalPosition", "handleAttitude", "handleVfrHud",
                 "handleSysStatus", "handleGpsRaw", "TelemetryHandler_Return",
                 "UploadMission", "UploadMission_CountFailed",
                 "UploadMission_Timeout", "Close_Disconnect",
                 "handleMissionCurrent"} -> "Lock"
      [] op \in {"IsConnected", "Command_Check", "WaitForConnection_Poll",
                 "GetSystemID", "IsArmed", "GetTelemetry",
                 "WaitForConnection_Request", "Arm", "Disarm", "SetMode",
                 "Takeoff", "Land", "ReturnToLaunch", "GoToPosition",
                 "ClearMission", "StartMission", "GetMissionProgress",
                 "IsConnected_RLock", "IsConnected_Test", "IsConnected_Store",
                 "MissionServer_StartMission", "MissionServer_StartMission_SetMode",
                 "MissionServer_StartMission_SetCurrent"}
                                                                      -> "RLock"
      [] OTHER -> "none"

\* a boolean return value
Bool(b) == IF b THEN Err("true", 0) ELSE Err("false", 0)

\* lines 722-733, called by caller p
IsConnected(p) ==
    /\ pc[p] = "idle"
    /\ LockFree
    /\ last' = Op("IsConnected", p)
    /\ UNCHANGED extVars
    /\ logged' = <<>>
    /\ connected' = IsConnectedValue
    /\ Return(p, Bool(IsConnectedValue))
    /\ sent' = <<>>
    /\ UNCHANGED <<now, armed, systemID, lastHeartbeat, telemetry, missionState,
                   chanVars, pc, local>>

\* lines 743-747
GetSystemID(p) ==
    /\ pc[p] = "idle"
    /\ LockFree
    /\ last' = Op("GetSystemID", p)
    /\ UNCHANGED extVars
    /\ logged' = <<>>
    /\ Return(p, Err("uint8", systemID))
    /\ sent' = <<>>
    /\ UNCHANGED <<now, clientVars, chanVars, pc, local>>

\* lines 736-740
IsArmed(p) ==
    /\ pc[p] = "idle"
    /\ LockFree
    /\ last' = Op("IsArmed", p)
    /\ UNCHANGED extVars
    /\ logged' = <<>>
    /\ Return(p, Bool(armed))
    /\ sent' = <<>>
    /\ UNCHANGED <<now, clientVars, chanVars, pc, local>>

----------------------------------------------------------------------------
(***************************************************************************)
(* Commands.  Each one reads systemID under the read lock, calls           *)
(* IsConnected, and then writes one message to the transport.              *)
(***************************************************************************)

\* the first statements of every command: RLock, systemID := c.systemID
CommandBegin(p, cmd, arg) ==
    /\ pc[p] = "idle"
    /\ LockFree
    /\ last' = Op(cmd, p)
    /\ UNCHANGED extVars
    /\ logged' = <<>>
    /\ pc' = [pc EXCEPT ![p] = "cmd_check"]
    /\ local' = [local EXCEPT ![p] =
                    [InitLocal EXCEPT !.systemID = systemID, !.cmd = cmd,
                                      !.arg = arg]]
    /\ NoReturn
    /\ sent' = <<>>
    /\ UNCHANGED <<now, clientVars, chanVars>>

Arm(p) == CommandBegin(p, "Arm", 0)
Disarm(p) == CommandBegin(p, "Disarm", 0)
SetMode(p, px4Mode) == CommandBegin(p, "SetMode", px4Mode)
Takeoff(p, altitude) == CommandBegin(p, "Takeoff", altitude)
Land(p) == CommandBegin(p, "Land", 0)
ReturnToLaunch(p) == CommandBegin(p, "ReturnToLaunch", 0)
GoToPosition(p, latitude) == CommandBegin(p, "GoToPosition", latitude)
ClearMission(p) == CommandBegin(p, "ClearMission", 0)
StartMission(p, waypointIndex) == CommandBegin(p, "StartMission", waypointIndex)

\* the commands
CommandNames == {"Arm", "Disarm", "SetMode", "Takeoff", "Land", "ReturnToLaunch",
                 "GoToPosition", "ClearMission", "StartMission"}

\* the command going on to its send whatever IsConnected returned
Command_Check_Ignored(p) ==
    /\ pc[p] = "cmd_check"
    /\ LockFree
    /\ last' = Op("Command_Check", p)
    /\ UNCHANGED extVars
    /\ logged' = <<>>
    /\ connected' = IsConnectedValue
    /\ pc' = [pc EXCEPT ![p] = "cmd_send"]
    /\ sent' = <<>>
    /\ UNCHANGED <<now, armed, systemID, lastHeartbeat, telemetry, missionState,
                   chanVars, local>>
    /\ NoReturn

\* `if !c.IsConnected() { return fmt.Errorf("not connected to drone") }`
Command_Check(p) ==
    /\ pc[p] = "cmd_check"
    /\ LockFree
    /\ last' = Op("Command_Check", p)
    /\ UNCHANGED extVars
    /\ logged' = <<>>
    /\ connected' = IsConnectedValue
    /\ IF IsConnectedValue
       THEN /\ pc' = [pc EXCEPT ![p] = "cmd_send"]
            /\ NoReturn
            /\ UNCHANGED local
       ELSE /\ pc' = [pc EXCEPT ![p] = "idle"]
            /\ Return(p, Err("not_connected", 0))
            /\ UNCHANGED local
    /\ sent' = <<>>
    /\ UNCHANGED <<now, armed, systemID, lastHeartbeat, telemetry, missionState,
                   chanVars>>

\* the message each command writes
CommandMsg(cmd, sys, arg) ==
    CASE cmd = "Arm" ->
           [type |-> "COMMAND_LONG", TargetSystem |-> sys,
            Command |-> "MAV_CMD_COMPONENT_ARM_DISARM", Param |-> 1]
      [] cmd = "Disarm" ->
           [type |-> "COMMAND_LONG", TargetSystem |-> sys,
            Command |-> "MAV_CMD_COMPONENT_ARM_DISARM", Param |-> 0]
      [] cmd = "SetMode" ->
           [type |-> "COMMAND_LONG", TargetSystem |-> sys,
            Command |-> "MAV_CMD_DO_SET_MODE", Param |-> arg]
      [] cmd = "Takeoff" ->
           [type |-> "COMMAND_LONG", TargetSystem |-> sys,
            Command |-> "MAV_CMD_NAV_TAKEOFF", Param |-> arg]
      [] cmd = "Land" ->
           [type |-> "COMMAND_LONG", TargetSystem |-> sys,
            Command |-> "MAV_CMD_NAV_LAND", Param |-> 0]
      [] cmd = "ReturnToLaunch" ->
           [type |-> "COMMAND_LONG", TargetSystem |-> sys,
            Command |-> "MAV_CMD_NAV_RETURN_TO_LAUNCH", Param |-> 0]
      [] cmd = "GoToPosition" ->
           [type |-> "SET_POSITION_TARGET_GLOBAL_INT", TargetSystem |-> sys,
            LatInt |-> arg * 10000000]
      [] cmd = "ClearMission" ->
           [type |-> "MISSION_CLEAR_ALL", TargetSystem |-> sys]
      [] cmd = "StartMission" ->
           [type |-> "MISSION_SET_CURRENT", TargetSystem |-> sys, Seq |-> arg]

\* `return c.node.WriteMessageAll(...)`
Command_Send(p, ok) ==
    /\ pc[p] = "cmd_send"
    /\ last' = Op("Command_Send", p)
    /\ UNCHANGED extVars
    /\ logged' = <<>>
    /\ sent' = <<Write(CommandMsg(local[p].cmd, local[p].systemID, local[p].arg), ok)>>
    /\ Return(p, IF ok THEN NilErr ELSE Err("send_failed", 0))
    /\ pc' = [pc EXCEPT ![p] = "idle"]
    /\ UNCHANGED <<now, clientVars, chanVars, local>>

----------------------------------------------------------------------------
(***************************************************************************)
(* Time.                                                                   *)
(***************************************************************************)
Tick(d, max) ==
    /\ last' = Op("Tick", d)
    /\ UNCHANGED extVars
    /\ logged' = <<>>
    /\ now + d <= max
    /\ now' = now + d
    /\ sent' = <<>>
    /\ UNCHANGED <<clientVars, chanVars, callerVars>>

----------------------------------------------------------------------------
(***************************************************************************)
(* Specification of the mission-upload protocol.                           *)
(***************************************************************************)
NextUpload ==
    \/ \E p \in Callers, w \in WaypointLists : UploadMission(p, w)
    \/ \E p \in Callers, ok \in BOOLEAN : UploadMission_SendCount(p, ok)
    \/ \E p \in Callers : UploadMission_CountFailed(p)
    \/ \E p \in Callers : UploadMission_Receive(p)
    \/ \E p \in Callers : UploadMission_TimerFired(p)
    \/ \E p \in Callers : UploadMission_Timeout(p)
    \/ \E s \in 0..MaxWaypoints, ok \in BOOLEAN : handleMissionRequestInt(s, ok)
    \/ \E s \in 0..MaxWaypoints, ok \in BOOLEAN : handleMissionRequest(s, ok)
    \/ \E t \in AckTypes : handleMissionAck(t)
    \/ Tick(UploadTick, MaxTime)

SpecUpload == Init /\ [][NextUpload]_vars

\* the same with the scheduling the runtime provides: the clock advances, a
\* select whose timer has expired takes a branch, and a task waiting for the
\* lock gets it (no handler blocks while holding it)
SpecUploadFair ==
    /\ SpecUpload
    /\ WF_vars(Tick(UploadTick, MaxTime))
    /\ \A p \in Callers : /\ WF_vars(UploadMission_TimerFired(p))
                          /\ WF_vars(UploadMission_Timeout(p))

----------------------------------------------------------------------------
(***************************************************************************)
(* Specification of connection tracking and command issuance.              *)
(***************************************************************************)
NextConn ==
    \/ \E s \in SysIDs, b \in BaseModes, m \in CustomModes : handleHeartbeat(s, b, m)
    \/ \E p \in CommandCallers : IsConnected(p)
    \/ \E p \in CommandCallers : GetSystemID(p)
    \/ \E p \in CommandCallers : IsArmed(p)
    \/ \E p \in CommandCallers : Arm(p)
    \/ \E p \in CommandCallers : Disarm(p)
    \/ \E p \in CommandCallers, m \in CommandArgs : SetMode(p, m)
    \/ \E p \in CommandCallers, a \in CommandArgs : Takeoff(p, a)
    \/ \E p \in CommandCallers : Land(p)
    \/ \E p \in CommandCallers : ReturnToLaunch(p)
    \/ \E p \in CommandCallers, l \in CommandArgs : GoToPosition(p, l)
    \/ \E p \in CommandCallers : ClearMission(p)
    \/ \E p \in CommandCallers, i \in CommandArgs : StartMission(p, i)
    \/ \E p \in CommandCallers : Command_Check(p)
    \/ \E p \in CommandCallers, ok \in BOOLEAN : Command_Send(p, ok)
    \/ Tick(ConnTick, MaxConnTime)

SpecConn == Init /\ [][NextConn]_vars

----------------------------------------------------------------------------
(***************************************************************************)
(* Mode codec: ControlServer.mapFlightModeToPX4 (encode) and               *)
(* TelemetryServer.mapPX4ModeToFlightMode (decode).  A raw mode is a       *)
(* uint32: main mode in bits 0-7, sub mode in bits 16-23.                  *)
(***************************************************************************)
MaxMainMode == 9       \* main-mode byte of the raw values decoded: 0..MaxMainMode
MaxSubMode == 10       \* sub-mode byte of the raw values decoded: 0..MaxSubMode
MaxOtherBits == 1      \* bits 8-15 of the raw values decoded: 0..MaxOtherBits

PX4_MAIN_MODE_MANUAL == 1
PX4_MAIN_MODE_ALTCTL == 2
PX4_MAIN_MODE_POSCTL == 3
PX4_MAIN_MODE_OFFBOARD == 6
PX4_MAIN_MODE_STABILIZED == 7
PX4_AUTO_MODE_TAKEOFF == 2
PX4_AUTO_MODE_LOITER == 3
PX4_AUTO_MODE_MISSION == 4
PX4_AUTO_MODE_RTL == 5
PX4_AUTO_MODE_LAND == 6

\* the constants the encoder names; their declarations are not part of the
\* sources at hand, the values are those of the mode mapping reference
PX4_CUSTOM_MAIN_MODE_MANUAL == 1
PX4_CUSTOM_MAIN_MODE_ALTCTL == 2
PX4_CUSTOM_MAIN_MODE_POSCTL == 3
PX4_CUSTOM_MAIN_MODE_AUTO == 4
PX4_CUSTOM_MAIN_MODE_OFFBOARD == 6
PX4_CUSTOM_MAIN_MODE_STABILIZED == 7
PX4_CUSTOM_SUB_MODE_AUTO_TAKEOFF == 2
PX4_CUSTOM_SUB_MODE_AUTO_LOITER == 3
PX4_CUSTOM_SUB_MODE_AUTO_MISSION == 4
PX4_CUSTOM_SUB_MODE_AUTO_RTL == 5
PX4_CUSTOM_SUB_MODE_AUTO_LAND == 6

\* x << 16 on a uint32
ShiftLeft16(x) == (x % 65536) * 65536

\* bitwise OR of two naturals
RECURSIVE BitOr(_, _)
BitOr(a, b) ==
    IF a = 0 THEN b
    ELSE IF b = 0 THEN a
    ELSE (IF a % 2 = 1 \/ b % 2 = 1 THEN 1 ELSE 0) + 2 * BitOr(a \div 2, b \div 2)

\* the generic modes the encoder supports
SupportedModes ==
    {"MANUAL", "STABILIZED", "ALTITUDE_HOLD", "POSITION_HOLD", "GUIDED", "AUTO",
     "RETURN_HOME", "LAND", "TAKEOFF", "LOITER"}
\* the values of the FlightMode enumeration
FlightModes == SupportedModes \cup {"UNSPECIFIED"}

\* the raw values handed to the decoder
RawModes ==
    {main + 256 * other + 65536 * sub :
        main \in 0..MaxMainMode, other \in 0..MaxOtherBits, sub \in 0..MaxSubMode}

\* the encoder shifting the sub mode by 8 bits
encodePX4AutoMode_Shift8(subMode) ==
    BitOr(PX4_CUSTOM_MAIN_MODE_AUTO, (subMode % 16777216) * 256)

\* part_002 lines 211-213: main_mode | (sub_mode << 16)
encodePX4AutoMode(subMode) ==
    BitOr(PX4_CUSTOM_MAIN_MODE_AUTO, ShiftLeft16(subMode))

\* part_002 lines 156-207: the raw value and whether an error is returned
mapFlightModeToPX4(mode) ==
    CASE mode = "MANUAL" -> [value |-> PX4_CUSTOM_MAIN_MODE_MANUAL, err |-> FALSE]
      [] mode = "STABILIZED" -> [value |-> PX4_CUSTOM_MAIN_MODE_STABILIZED, err |-> FALSE]
      [] mode = "ALTITUDE_HOLD" -> [value |-> PX4_CUSTOM_MAIN_MODE_ALTCTL, err |-> FALSE]
      [] mode = "POSITION_HOLD" -> [value |-> PX4_CUSTOM_MAIN_MODE_POSCTL, err |-> FALSE]
      [] mode = "GUIDED" -> [value |-> PX4_CUSTOM_MAIN_MODE_OFFBOARD, err |-> FALSE]
      [] mode = "AUTO" ->
           [value |-> encodePX4AutoMode(PX4_CUSTOM_SUB_MODE_AUTO_MISSION), err |-> FALSE]
      [] mode = "RETURN_HOME" ->
           [value |-> encodePX4AutoMode(PX4_CUSTOM_SUB_MODE_AUTO_RTL), err |-> FALSE]
      [] mode = "LAND" ->
           [value |-> encodePX4AutoMode(PX4_CUSTOM_SUB_MODE_AUTO_LAND), err |-> FALSE]
      [] mode = "TAKEOFF" ->
           [value |-> encodePX4AutoMode(PX4_CUSTOM_SUB_MODE_AUTO_TAKEOFF), err |-> FALSE]
      [] mode = "LOITER" ->
           [value |-> encodePX4AutoMode(PX4_CUSTOM_SUB_MODE_AUTO_LOITER), err |-> FALSE]
      [] OTHER -> [value |-> 0, err |-> TRUE]

\* the decoder comparing the whole raw value with the main modes
mapPX4ModeToFlightMode_NoMask(customMode) ==
    LET mainMode == customMode
        subMode == BitAnd(customMode \div 65536, 255)
    IN  CASE mainMode = PX4_MAIN_MODE_MANUAL -> "MANUAL"
          [] mainMode = PX4_MAIN_MODE_STABILIZED -> "STABILIZED"
          [] mainMode = PX4_MAIN_MODE_ALTCTL -> "ALTITUDE_HOLD"
          [] mainMode = PX4_MAIN_MODE_POSCTL -> "POSITION_HOLD"
          [] mainMode = PX4_MAIN_MODE_OFFBOARD -> "GUIDED"
          [] mainMode = PX4_MAIN_MODE_AUTO -> "AUTO"
          [] OTHER -> "MANUAL"

\* telemetry.go lines 199-243
mapPX4ModeToFlightMode(customMode) ==
    LET mainMode == BitAnd(customMode, 255)
        subMode == BitAnd(customMode \div 65536, 255)
    IN  CASE mainMode = PX4_MAIN_MODE_MANUAL -> "MANUAL"
          [] mainMode = PX4_MAIN_MODE_STABILIZED -> "STABILIZED"
          [] mainMode = PX4_MAIN_MODE_ALTCTL -> "ALTITUDE_HOLD"
          [] mainMode = PX4_MAIN_MODE_POSCTL -> "POSITION_HOLD"
          [] mainMode = PX4_MAIN_MODE_OFFBOARD -> "GUIDED"
          [] mainMode = PX4_MAIN_MODE_AUTO ->
               CASE subMode = PX4_AUTO_MODE_MISSION -> "AUTO"
                 [] subMode = PX4_AUTO_MODE_RTL -> "RETURN_HOME"
                 [] subMode = PX4_AUTO_MODE_LAND -> "LAND"
                 [] subMode = PX4_AUTO_MODE_TAKEOFF -> "TAKEOFF"
                 [] subMode = PX4_AUTO_MODE_LOITER -> "LOITER"
                 [] OTHER -> "AUTO"
          [] OTHER -> "MANUAL"

\* a step of the codec specification leaves the client alone
CodecStep(name) ==
    /\ last' = Op(name, 0)
    /\ sent' = <<>>
    /\ logged' = <<>>
    /\ UNCHANGED <<now, clientVars, chanVars, callerVars, handling, polled,
                 shutdown, service>>

\* encode the generic mode `mode`
Encode(mode) ==
    /\ CodecStep("mapFlightModeToPX4")
    /\ codec' = [op |-> "encode", arg |-> mode, mode |-> mode,
                 raw |-> mapFlightModeToPX4(mode).value,
                 err |-> mapFlightModeToPX4(mode).err]

\* decode the raw value the encoder has just returned
DecodeEncoded ==
    /\ codec.op = "encode"
    /\ ~codec.err
    /\ CodecStep("mapPX4ModeToFlightMode")
    /\ codec' = [op |-> "roundtrip", arg |-> codec.arg,
                 mode |-> mapPX4ModeToFlightMode(codec.raw),
                 raw |-> codec.raw, err |-> FALSE]

\* decode a raw value reported by the vehicle
Decode(customMode) ==
    /\ CodecStep("mapPX4ModeToFlightMode")
    /\ codec' = [op |-> "decode", arg |-> "none",
                 mode |-> mapPX4ModeToFlightMode(customMode),
                 raw |-> customMode, err |-> FALSE]

NextCodec ==
    \/ \E m \in FlightModes : Encode(m)
    \/ DecodeEncoded
    \/ \E r \in RawModes : Decode(r)

SpecCodec == Init /\ [][NextCodec]_vars

----------------------------------------------------------------------------
(***************************************************************************)
(* Telemetry handlers and GetTelemetry.  A handler takes the client lock,  *)
(* assigns its fields one after the other and LastUpdate last, and         *)
(* releases the lock on return; it is modelled in two steps, the first     *)
(* assignment and the rest, with the lock held in between.                 *)
(***************************************************************************)
MaxTelemValue == 1     \* field values of inbound telemetry messages: 1..MaxTelemValue
MaxSensorMask == 3     \* sensor bit masks of SYS_STATUS: 0..MaxSensorMask
TelemTick == 1         \* clock step of the telemetry specification
MaxTelemTime == 1      \* the clock stops here in the telemetry specification

TelemValues == 1..MaxTelemValue
SensorMasks == 0..MaxSensorMask

GlobalPositionMsgs ==
    {[Lat |-> v, Lon |-> v, Alt |-> v, Vx |-> v, Vy |-> v, Vz |-> v] :
        v \in TelemValues}
AttitudeMsgs == {[Roll |-> v, Pitch |-> v, Yaw |-> v] : v \in TelemValues}
VfrHudMsgs == {[Heading |-> v, Groundspeed |-> v, Climb |-> v] : v \in TelemValues}
SysStatusMsgs ==
    {[VoltageBattery |-> v, BatteryRemaining |-> v, CurrentBattery |-> v,
      OnboardControlSensorsHealth |-> h, OnboardControlSensorsEnabled |-> e] :
        v \in TelemValues, h \in SensorMasks, e \in SensorMasks}
GpsRawMsgs == {[Eph |-> v, SatellitesVisible |-> v] : v \in TelemValues}

\* the flag taken as the equality of the two masks
SensorsHealthy_MasksEqual(msg) ==
    msg.OnboardControlSensorsHealth = msg.OnboardControlSensorsEnabled

\* lines 404-405: (health & enabled) == enabled
SensorsHealthy(msg) ==
    BitAnd(msg.OnboardControlSensorsHealth, msg.OnboardControlSensorsEnabled)
        = msg.OnboardControlSensorsEnabled

\* the assignments a handler makes to c.telemetry, in the order of the source
\* (LastUpdate, which every handler assigns last, is left out)
Assigned(op, msg) ==
    CASE op = "handleGlobalPosition" ->
           <<<<"Latitude", Ratio(msg.Lat, 10000000)>>,
             <<"Longitude", Ratio(msg.Lon, 10000000)>>,
             <<"Altitude", Ratio(msg.Alt, 1000)>>,
             <<"VelocityX", Ratio(msg.Vx, 100)>>,
             <<"VelocityY", Ratio(msg.Vy, 100)>>,
             <<"VelocityZ", Ratio(msg.Vz, 100)>> >>
      [] op = "handleAttitude" ->
           <<<<"Roll", Ratio(msg.Roll, 1)>>,
             <<"Pitch", Ratio(msg.Pitch, 1)>>,
             <<"Yaw", Ratio(msg.Yaw, 1)>> >>
      [] op = "handleVfrHud" ->
           <<<<"Heading", Ratio(msg.Heading, 1)>>,
             <<"GroundSpeed", Ratio(msg.Groundspeed, 1)>>,
             <<"VerticalSpeed", Ratio(msg.Climb, 1)>> >>
      [] op = "handleSysStatus" ->
           <<<<"BatteryVoltage", Ratio(msg.VoltageBattery, 1000)>>,
             <<"BatteryRemaining", msg.BatteryRemaining>>,
             <<"BatteryCurrent", Ratio(msg.CurrentBattery, 100)>>,
             <<"SensorsHealthy", SensorsHealthy(msg)>> >>
      [] op = "handleGpsRaw" ->
           <<<<"GPSAccuracy", Ratio(msg.Eph, 100)>>,
             <<"SatelliteCount", msg.SatellitesVisible>> >>

\* the snapshot t after the assignments `pairs`
RECURSIVE Assign(_, _)
Assign(t, pairs) ==
    IF pairs = <<>>
    THEN t
    ELSE Assign([t EXCEPT ![Head(pairs)[1]] = Head(pairs)[2]], Tail(pairs))

\* c.mu.Lock() and the first assignment of handler `op`
TelemetryHandler(op, msg, tag) ==
    /\ LockFree
    /\ last' = Op(op, tag)
    /\ listen' = "handling"
    /\ handling' = [op |-> op, msg |-> msg, before |-> telemetry]
    /\ telemetry' = Assign(telemetry, <<Head(Assigned(op, msg))>>)
    /\ sent' = <<>>
    /\ logged' = <<>>
    /\ UNCHANGED <<now, connected, armed, systemID, lastHeartbeat, missionState,
                   chans, fulfilled, callerVars, codec, polled,
                   shutdown, service>>

\* lines 347-365
handleGlobalPosition(msg) == TelemetryHandler("handleGlobalPosition", msg, msg.Lat)
\* lines 367-377
handleAttitude(msg) == TelemetryHandler("handleAttitude", msg, msg.Roll)
\* lines 379-389
handleVfrHud(msg) == TelemetryHandler("handleVfrHud", msg, msg.Heading)
\* lines 391-408
handleSysStatus(msg) == TelemetryHandler("handleSysStatus", msg, msg.VoltageBattery)
\* lines 410-420
handleGpsRaw(msg) == TelemetryHandler("handleGpsRaw", msg, msg.Eph)

\* a handler that rebuilds the snapshot from its message alone
TelemetryHandler_Return_ClearsRest ==
    /\ listen = "handling"
    /\ last' = Op("TelemetryHandler_Return", 0)
    /\ telemetry' = [Assign(InitTelemetry, Assigned(handling.op, handling.msg))
                        EXCEPT !.LastUpdate = now]
    /\ listen' = "running"
    /\ handling' = NoHandling
    /\ sent' = <<>>
    /\ logged' = <<>>
    /\ UNCHANGED <<now, connected, armed, systemID, lastHeartbeat, missionState,
                   chans, fulfilled, callerVars, codec, polled,
                   shutdown, service>>

\* the remaining assignments of the running handler, LastUpdate = time.Now()
\* and the deferred c.mu.Unlock()
TelemetryHandler_Return ==
    /\ listen = "handling"
    /\ last' = Op("TelemetryHandler_Return", 0)
    /\ telemetry' = [Assign(telemetry, Tail(Assigned(handling.op, handling.msg)))
                        EXCEPT !.LastUpdate = now]
    /\ listen' = "running"
    /\ handling' = NoHandling
    /\ sent' = <<>>
    /\ logged' = <<>>
    /\ UNCHANGED <<now, connected, armed, systemID, lastHeartbeat, missionState,
                   chans, fulfilled, callerVars, codec, polled,
                   shutdown, service>>

\* GetTelemetry reading the snapshot without the read lock
GetTelemetry_NoLock(p) ==
    /\ pc[p] = "idle"
    /\ last' = Op("GetTelemetry", p)
    /\ Return(p, Err("TelemetryData", telemetry))
    /\ sent' = <<>>
    /\ logged' = <<>>
    /\ UNCHANGED <<now, clientVars, chanVars, pc, local, extVars>>

\* GetTelemetry returning a reference to the client's snapshot
GetTelemetry_ByReference(p) ==
    /\ pc[p] = "idle"
    /\ LockFree
    /\ last' = Op("GetTelemetry", p)
    /\ Return(p, Err("*TelemetryData", 0))
    /\ sent' = <<>>
    /\ logged' = <<>>
    /\ UNCHANGED <<now, clientVars, chanVars, pc, local, extVars>>

\* lines 715-719: under the read lock, return c.telemetry by value
GetTelemetry(p) ==
    /\ pc[p] = "idle"
    /\ LockFree
    /\ last' = Op("GetTelemetry", p)
    /\ Return(p, Err("TelemetryData", telemetry))
    /\ sent' = <<>>
    /\ logged' = <<>>
    /\ UNCHANGED <<now, clientVars, chanVars, pc, local, extVars>>

NextTelem ==
    \/ \E m \in GlobalPositionMsgs : handleGlobalPosition(m)
    \/ \E m \in AttitudeMsgs : handleAttitude(m)
    \/ \E m \in VfrHudMsgs : handleVfrHud(m)
    \/ \E m \in SysStatusMsgs : handleSysStatus(m)
    \/ \E m \in GpsRawMsgs : handleGpsRaw(m)
    \/ TelemetryHandler_Return
    \/ \E s \in SysIDs, b \in BaseModes, m \in CustomModes : handleHeartbeat(s, b, m)
    \/ Tick(TelemTick, MaxTelemTime)

SpecTelem == Init /\ [][NextTelem]_vars

\* readers of the snapshot against the handlers
NextSnap ==
    \/ \E m \in GlobalPositionMsgs : handleGlobalPosition(m)
    \/ \E m \in AttitudeMsgs : handleAttitude(m)
    \/ TelemetryHandler_Return
    \/ \E p \in CommandCallers : GetTelemetry(p)
    \/ Tick(TelemTick, MaxTelemTime)

SpecSnap == Init /\ [][NextSnap]_vars

----------------------------------------------------------------------------
(***************************************************************************)
(* WaitForConnection, caller p.  The loop polls IsConnected, tests the     *)
(* deadline and waits for the 100 ms ticker; the clock of the model counts *)
(* seconds, so the ticker can fire with the clock where it was.            *)
(***************************************************************************)
MaxWaitTimeout == 2    \* timeouts handed to WaitForConnection: 0..MaxWaitTimeout

WaitTimeouts == 0..MaxWaitTimeout

\* lines 255-261: the message requestDataStreams writes
RequestDataStreamMsg(sys) ==
    [type |-> "REQUEST_DATA_STREAM", TargetSystem |-> sys,
     ReqStreamId |-> "MAV_DATA_STREAM_ALL", ReqMessageRate |-> 10, StartStop |-> 1]

\* lines 750-755: deadline := time.Now().Add(timeout), and the ticker is made
WaitForConnection(p, timeout) ==
    /\ pc[p] = "idle"
    /\ last' = Op("WaitForConnection", p)
    /\ pc' = [pc EXCEPT ![p] = "wait_poll"]
    /\ local' = [local EXCEPT ![p] =
                    [InitLocal EXCEPT !.timer = now + timeout, !.arg = timeout]]
    /\ polled' = [polled EXCEPT ![p] = NoPolls]
    /\ NoReturn
    /\ sent' = <<>>
    /\ logged' = <<>>
    /\ UNCHANGED <<now, clientVars, chanVars, codec, handling, shutdown,
                   service>>

\* line 757: `if c.IsConnected()`
WaitForConnection_Poll(p) ==
    /\ pc[p] = "wait_poll"
    /\ LockFree
    /\ last' = Op("WaitForConnection_Poll", p)
    /\ connected' = IsConnectedValue
    /\ polled' = [polled EXCEPT ![p] =
                     [at |-> now, value |-> IsConnectedValue,
                      inTime |-> @.inTime \/ (IsConnectedValue /\ now <= local[p].timer)]]
    /\ pc' = [pc EXCEPT ![p] =
                 IF IsConnectedValue THEN "wait_request" ELSE "wait_deadline"]
    /\ NoReturn
    /\ sent' = <<>>
    /\ logged' = <<>>
    /\ UNCHANGED <<now, armed, systemID, lastHeartbeat, telemetry, missionState,
                   chanVars, local, codec, handling, shutdown,
                   service>>

\* lines 758-767 and requestDataStreams (lines 249-261): read systemID under
\* the read lock, write the request, log a failed write, and return nil
WaitForConnection_Request(p, ok) ==
    /\ pc[p] = "wait_request"
    /\ LockFree
    /\ last' = Op("WaitForConnection_Request", p)
    /\ sent' = <<Write(RequestDataStreamMsg(systemID), ok)>>
    /\ logged' = IF ok THEN <<>>
                 ELSE <<"Warning - failed to request data streams">>
    /\ Return(p, NilErr)
    /\ pc' = [pc EXCEPT ![p] = "idle"]
    /\ local' = [local EXCEPT ![p] = InitLocal]
    /\ UNCHANGED <<now, clientVars, chanVars, extVars>>

\* the loop without its deadline test
WaitForConnection_Deadline_Never(p) ==
    /\ pc[p] = "wait_deadline"
    /\ last' = Op("WaitForConnection_Deadline", p)
    /\ pc' = [pc EXCEPT ![p] = "wait_tick"]
    /\ NoReturn
    /\ sent' = <<>>
    /\ logged' = <<>>
    /\ UNCHANGED <<now, clientVars, chanVars, local, extVars>>

\* lines 770-772: `if time.Now().After(deadline)` return the timeout error
WaitForConnection_Deadline(p) ==
    /\ pc[p] = "wait_deadline"
    /\ last' = Op("WaitForConnection_Deadline", p)
    /\ IF now > local[p].timer
       THEN /\ Return(p, Err("timeout waiting for heartbeat", 0))
            /\ pc' = [pc EXCEPT ![p] = "idle"]
            /\ local' = [local EXCEPT ![p] = InitLocal]
       ELSE /\ NoReturn
            /\ pc' = [pc EXCEPT ![p] = "wait_tick"]
            /\ UNCHANGED local
    /\ sent' = <<>>
    /\ logged' = <<>>
    /\ UNCHANGED <<now, clientVars, chanVars, extVars>>

\* line 774: `<-ticker.C`
WaitForConnection_Ticker(p) ==
    /\ pc[p] = "wait_tick"
    /\ last' = Op("WaitForConnection_Ticker", p)
    /\ pc' = [pc EXCEPT ![p] = "wait_poll"]
    /\ NoReturn
    /\ sent' = <<>>
    /\ logged' = <<>>
    /\ UNCHANGED <<now, clientVars, chanVars, local, extVars>>

\* WaitForConnection against the heartbeats and the clock
NextWait ==
    \/ \E s \in SysIDs, b \in BaseModes, m \in CustomModes : handleHeartbeat(s, b, m)
    \/ \E p \in CommandCallers, t \in WaitTimeouts : WaitForConnection(p, t)
    \/ \E p \in CommandCallers : WaitForConnection_Poll(p)
    \/ \E p \in CommandCallers, ok \in BOOLEAN : WaitForConnection_Request(p, ok)
    \/ \E p \in CommandCallers : WaitForConnection_Deadline(p)
    \/ \E p \in CommandCallers : WaitForConnection_Ticker(p)
    \/ Tick(ConnTick, MaxConnTime)

SpecWait == Init /\ [][NextWait]_vars

\* the calls that block their caller (UploadMission, WaitForConnection)
\* against the acknowledgments, the heartbeats and the clock
NextBlocking ==
    \/ \E p \in Callers : UploadMission(p, <<>>)
    \/ \E p \in Callers, ok \in BOOLEAN : UploadMission_SendCount(p, ok)
    \/ \E p \in Callers : UploadMission_CountFailed(p)
    \/ \E p \in Callers : UploadMission_Receive(p)
    \/ \E p \in Callers : UploadMission_TimerFired(p)
    \/ \E p \in Callers : UploadMission_Timeout(p)
    \/ \E t \in AckTypes : handleMissionAck(t)
    \/ \E p \in CommandCallers : WaitForConnection(p, MaxWaitTimeout)
    \/ \E p \in CommandCallers : WaitForConnection_Poll(p)
    \/ \E p \in CommandCallers, ok \in BOOLEAN : WaitForConnection_Request(p, ok)
    \/ \E p \in CommandCallers : WaitForConnection_Deadline(p)
    \/ \E p \in CommandCallers : WaitForConnection_Ticker(p)
    \/ \E m \in CustomModes : handleHeartbeat(1, MAV_MODE_FLAG_SAFETY_ARMED, m)
    \/ Tick(UploadTick, MaxTime)

SpecBlocking == Init /\ [][NextBlocking]_vars

\* the same with the scheduling the runtime provides: the clock advances, the
\* ticker and an expired timer fire, a task that can run does run, and a task
\* waiting for the lock gets it (no handler blocks while holding it)
SpecBlockingFair ==
    /\ SpecBlocking
    /\ WF_vars(Tick(UploadTick, MaxTime))
    /\ \A p \in Callers :
          /\ WF_vars(\E ok \in BOOLEAN : UploadMission_SendCount(p, ok))
          /\ WF_vars(UploadMission_CountFailed(p))
          /\ WF_vars(UploadMission_TimerFired(p))
          /\ WF_vars(UploadMission_Timeout(p))
          /\ WF_vars(WaitForConnection_Poll(p))
          /\ WF_vars(\E ok \in BOOLEAN : WaitForConnection_Request(p, ok))
          /\ WF_vars(WaitForConnection_Deadline(p))
          /\ WF_vars(WaitForConnection_Ticker(p))

\* the calls of a caller that write to the transport (commands, mission clear
\* and start, UploadMission, WaitForConnection), each write failing or not
NextSend ==
    \/ \E p \in Callers : UploadMission(p, <<>>)
    \/ \E p \in Callers, ok \in BOOLEAN : UploadMission_SendCount(p, ok)
    \/ \E p \in Callers : UploadMission_CountFailed(p)
    \/ \E p \in Callers : UploadMission_Receive(p)
    \/ \E p \in Callers : UploadMission_TimerFired(p)
    \/ \E p \in Callers : UploadMission_Timeout(p)
    \/ \E t \in AckTypes : handleMissionAck(t)
    \/ \E p \in CommandCallers : WaitForConnection(p, MaxWaitTimeout)
    \/ \E p \in CommandCallers : WaitForConnection_Poll(p)
    \/ \E p \in CommandCallers, ok \in BOOLEAN : WaitForConnection_Request(p, ok)
    \/ \E p \in CommandCallers : WaitForConnection_Deadline(p)
    \/ \E p \in CommandCallers : WaitForConnection_Ticker(p)
    \/ \E p \in CommandCallers : Arm(p)
    \/ \E p \in CommandCallers : ClearMission(p)
    \/ \E p \in CommandCallers, i \in CommandArgs : StartMission(p, i)
    \/ \E p \in CommandCallers : Command_Check(p)
    \/ \E p \in CommandCallers, ok \in BOOLEAN : Command_Send(p, ok)
    \/ \E m \in CustomModes : handleHeartbeat(1, MAV_MODE_FLAG_SAFETY_ARMED, m)
    \/ Tick(UploadTick, MaxTime)

SpecSend == Init /\ [][NextSend]_vars

----------------------------------------------------------------------------
(***************************************************************************)
(* The ground-station sender task and Close.                               *)
(***************************************************************************)

\* lines 216-239: the ticker branch of the sender's select writes a HEARTBEAT
\* and a SYSTEM_TIME message and logs the writes that fail
sendGroundStationMessages_Tick(ok1, ok2) ==
    /\ shutdown.sender = "running"
    /\ last' = Op("sendGroundStationMessages_Tick", 0)
    /\ sent' = <<Write([type |-> "HEARTBEAT", Type |-> "MAV_TYPE_GCS"], ok1),
                 Write([type |-> "SYSTEM_TIME", TimeUnixUsec |-> now], ok2)>>
    /\ logged' = (IF ok1 THEN <<>> ELSE <<"Error sending HEARTBEAT">>)
                   \o (IF ok2 THEN <<>> ELSE <<"Error sending SYSTEM_TIME">>)
    /\ UNCHANGED <<now, clientVars, chanVars, callerVars, extVars>>

\* lines 212-214 and 204: the stop branch of the select returns, and the
\* deferred close(c.heartbeatDone) runs
sendGroundStationMessages_Stop ==
    /\ shutdown.sender = "running"
    /\ shutdown.stopHeartbeat = "closed"
    /\ last' = Op("sendGroundStationMessages_Stop", 0)
    /\ shutdown' = [shutdown EXCEPT !.sender = "stopped", !.heartbeatDone = "closed"]
    /\ sent' = <<>>
    /\ logged' = <<"Stopping ground station message sender">>
    /\ UNCHANGED <<now, clientVars, chanVars, callerVars, codec, handling, polled,
                   service>>

\* lines 902-906: close(c.stopHeartbeat), which panics when the channel is
\* closed already; then the select is entered and its timer made
Close(p) ==
    /\ pc[p] = "idle"
    /\ last' = Op("Close", p)
    /\ IF shutdown.stopHeartbeat = "closed"
       THEN /\ pc' = [pc EXCEPT ![p] = "panicked"]
            /\ Return(p, Err("panic: close of closed channel", 0))
            /\ UNCHANGED <<local, shutdown>>
       ELSE /\ shutdown' = [shutdown EXCEPT !.stopHeartbeat = "closed"]
            /\ pc' = [pc EXCEPT ![p] = "close_select"]
            /\ local' = [local EXCEPT ![p] =
                            [InitLocal EXCEPT !.timer = now + CloseTimeoutSec]]
            /\ NoReturn
    /\ sent' = <<>>
    /\ logged' = <<>>
    /\ UNCHANGED <<now, clientVars, chanVars, codec, handling, polled,
                   service>>

\* lines 910-911: the select receives from the closed heartbeatDone
Close_SenderStopped(p) ==
    /\ pc[p] = "close_select"
    /\ shutdown.heartbeatDone = "closed"
    /\ last' = Op("Close_SenderStopped", p)
    /\ pc' = [pc EXCEPT ![p] = "close_lock"]
    /\ NoReturn
    /\ sent' = <<>>
    /\ logged' = <<"Ground station message sender stopped">>
    /\ UNCHANGED <<now, clientVars, chanVars, local, extVars>>

\* lines 912-913: the select takes its time.After(2 s) branch
Close_TimerFired(p) ==
    /\ pc[p] = "close_select"
    /\ now >= local[p].timer
    /\ last' = Op("Close_TimerFired", p)
    /\ pc' = [pc EXCEPT ![p] = "close_lock"]
    /\ NoReturn
    /\ sent' = <<>>
    /\ logged' = <<"Warning - ground station message sender stop timeout">>
    /\ UNCHANGED <<now, clientVars, chanVars, local, extVars>>

\* lines 916-918: under the lock, c.connected = false
Close_Disconnect(p) ==
    /\ pc[p] = "close_lock"
    /\ LockFree
    /\ last' = Op("Close_Disconnect", p)
    /\ connected' = FALSE
    /\ pc' = [pc EXCEPT ![p] = "close_node"]
    /\ NoReturn
    /\ sent' = <<>>
    /\ logged' = <<>>
    /\ UNCHANGED <<now, armed, systemID, lastHeartbeat, telemetry, missionState,
                   chanVars, local, extVars>>

\* Close returning without releasing the transport
Close_Node_KeepsNode(p) ==
    /\ pc[p] = "close_node"
    /\ last' = Op("Close_Node", p)
    /\ pc' = [pc EXCEPT ![p] = "idle"]
    /\ local' = [local EXCEPT ![p] = InitLocal]
    /\ Return(p, NilErr)
    /\ sent' = <<>>
    /\ logged' = <<>>
    /\ UNCHANGED <<now, clientVars, chanVars, extVars>>

\* lines 920-921: c.node.Close() and return nil
Close_Node(p) ==
    /\ pc[p] = "close_node"
    /\ last' = Op("Close_Node", p)
    /\ shutdown' = [shutdown EXCEPT !.node = "closed"]
    /\ pc' = [pc EXCEPT ![p] = "idle"]
    /\ local' = [local EXCEPT ![p] = InitLocal]
    /\ Return(p, NilErr)
    /\ sent' = <<>>
    /\ logged' = <<>>
    /\ UNCHANGED <<now, clientVars, chanVars, codec, handling, polled,
                   service>>

\* lines 268-272: the listen task handles frames for as long as the node
\* delivers events
listen_Heartbeat(sysID, baseMode, customMode) ==
    /\ shutdown.node = "open"
    /\ handleHeartbeat(sysID, baseMode, customMode)

\* lines 268 and 274: the node is closed, its event channel with it, and the
\* loop of the listen task ends
listen_Stop ==
    /\ shutdown.listener = "running"
    /\ shutdown.node = "closed"
    /\ LockFree
    /\ last' = Op("listen_Stop", 0)
    /\ shutdown' = [shutdown EXCEPT !.listener = "stopped"]
    /\ sent' = <<>>
    /\ logged' = <<"Message listener stopped">>
    /\ UNCHANGED <<now, clientVars, chanVars, callerVars, codec, handling, polled,
                   service>>

\* Close, by every caller, against the sender task, the heartbeats and the clock
NextClose ==
    \/ \E p \in Callers : Close(p)
    \/ \E p \in Callers : Close_SenderStopped(p)
    \/ \E p \in Callers : Close_TimerFired(p)
    \/ \E p \in Callers : Close_Disconnect(p)
    \/ \E p \in Callers : Close_Node(p)
    \/ \E ok1 \in BOOLEAN, ok2 \in BOOLEAN : sendGroundStationMessages_Tick(ok1, ok2)
    \/ sendGroundStationMessages_Stop
    \/ \E s \in SysIDs, b \in BaseModes, m \in CustomModes : listen_Heartbeat(s, b, m)
    \/ listen_Stop
    \/ \E p \in CommandCallers : IsConnected(p)
    \/ Tick(ConnTick, MaxConnTime)

SpecClose == Init /\ [][NextClose]_vars

\* the same with the scheduling the runtime provides: the clock advances, an
\* expired timer fires, and a task that can run does run
SpecCloseFair ==
    /\ SpecClose
    /\ WF_vars(Tick(ConnTick, MaxConnTime))
    /\ WF_vars(sendGroundStationMessages_Stop)
    /\ WF_vars(listen_Stop)
    /\ \A p \in Callers :
          /\ WF_vars(Close_SenderStopped(p))
          /\ WF_vars(Close_TimerFired(p))
          /\ WF_vars(Close_Disconnect(p))
          /\ WF_vars(Close_Node(p))

----------------------------------------------------------------------------
(***************************************************************************)
(* The connection service (ConnectionServer) and the client it keeps in    *)
(* Dependencies.  Client instances are numbered as NewClient makes them;   *)
(* what a client's IsConnected and WaitForConnection return and whether    *)
(* NewClient succeeds depend on the vehicle and the port, and are inputs.  *)
(* A handler runs as one step; a panic in it is recovered by the Recovery  *)
(* middleware (part_004), which answers the request with an error.         *)
(***************************************************************************)
MaxClients == 4        \* client instances NewClient makes: 1..MaxClients

\* the request's drone_id: empty, not in the registry, or in the registry with
\* one of the protocols of the switch
ConnectRequests == {"empty", "unknown", "mavlink", "dji", "other"}

\* client.Close() on instance c: a panic when c was closed before (close of the
\* closed stopHeartbeat, client.go:906)
ServiceClose(svc, c) ==
    IF c \in svc.closed
    THEN [svc EXCEPT !.panicked = TRUE]
    ELSE [svc EXCEPT !.closed = @ \cup {c}]

\* part_003 lines 334-399: NewClient, WaitForConnection, SetMAVLinkClient
connectMAVLink(svc, newOk, waitOk) ==
    IF ~newOk
    THEN [svc EXCEPT !.response = "Failed to create MAVLink connection"]
    ELSE LET c == svc.made + 1
             made == [svc EXCEPT !.made = c]
         IN  IF ~waitOk
             THEN [ServiceClose(made, c) EXCEPT !.response = "Connection timeout"]
             ELSE [made EXCEPT !.current = c, !.response = "Connected"]

\* part_003 lines 271-331, as a function of the service state
ConnectResult(svc, req, isConn, newOk, waitOk) ==
    IF req = "empty"
    THEN [svc EXCEPT !.response = "drone_id is required"]
    ELSE IF svc.current # 0 /\ isConn
    THEN [svc EXCEPT !.response = "Already connected"]
    ELSE LET cleaned == IF svc.current # 0
                        THEN ServiceClose(svc, svc.current)
                        ELSE svc
         IN  IF cleaned.panicked
             THEN [cleaned EXCEPT !.response = "panic"]
             ELSE CASE req = "unknown" ->
                         [cleaned EXCEPT !.response = "Drone not found in registry"]
                    [] req = "mavlink" -> connectMAVLink(cleaned, newOk, waitOk)
                    [] req = "dji" ->
                         [cleaned EXCEPT !.response = "DJI protocol not yet implemented"]
                    [] req = "other" ->
                         [cleaned EXCEPT !.response = "Unknown protocol"]

\* a step of the service layer leaves the client model alone; none is taken
\* once the process has exited
ServiceStep(name, arg) ==
    /\ service.response # "exit"
    /\ last' = Op(name, arg)
    /\ sent' = <<>>
    /\ logged' = <<>>
    /\ UNCHANGED <<now, clientVars, chanVars, callerVars, codec, handling, polled,
                   shutdown>>

\* ConnectionServer.Connect
Connect(req, isConn, newOk, waitOk) ==
    /\ newOk => service.made < MaxClients
    /\ ServiceStep("Connect", service.current)
    /\ service' = ConnectResult([service EXCEPT !.panicked = FALSE],
                                req, isConn, newOk, waitOk)

\* part_003 lines 433-467: Close the current client, then ClearMAVLinkClient
Disconnect ==
    /\ ServiceStep("Disconnect", service.current)
    /\ service' =
         IF service.current = 0
         THEN [service EXCEPT !.panicked = FALSE,
                              !.response = "Not connected to any drone"]
         ELSE LET closed == ServiceClose([service EXCEPT !.panicked = FALSE],
                                         service.current)
              IN  IF closed.panicked
                  THEN [closed EXCEPT !.response = "panic"]
                  ELSE [closed EXCEPT !.current = 0,
                                      !.response = "Disconnected successfully"]

\* part_003 lines 411-431: IsConnected and IsArmed of the current client
GetStatus(isConn) ==
    /\ ServiceStep("GetStatus", service.current)
    /\ service' = [service EXCEPT
                      !.panicked = FALSE,
                      !.response = IF service.current # 0 /\ isConn
                                   THEN "Connected: true"
                                   ELSE "Connected: false"]

\* part_005 lines 60-79 (handleShutdown): on the signal, Close the client
\* Dependencies holds, then os.Exit; a panic in Close ends the process too
Shutdown ==
    /\ ServiceStep("Shutdown", service.current)
    /\ service' =
         LET svc == [service EXCEPT !.panicked = FALSE, !.response = "exit"]
         IN  IF service.current = 0 THEN svc ELSE ServiceClose(svc, service.current)

NextService ==
    \/ \E req \in ConnectRequests, isConn \in BOOLEAN, newOk \in BOOLEAN,
          waitOk \in BOOLEAN : Connect(req, isConn, newOk, waitOk)
    \/ Disconnect
    \/ \E isConn \in BOOLEAN : GetStatus(isConn)
    \/ Shutdown

SpecService == Init /\ [][NextService]_vars

\* Connect requests served concurrently (each by its own goroutine of the HTTP
\* server), numbered 1..NumHandlers.  A request h that has made its client
\* waits in WaitForConnection (up to the request's timeout) before it stores
\* the client; other requests run meanwhile.
\* part_003 lines 286-298: the cleanup of the client Dependencies holds
ConnectCleanup(svc) ==
    IF svc.current # 0 THEN ServiceClose(svc, svc.current) ELSE svc

\* part_003 lines 271-331 and 334-372: Connect up to the return of NewClient
Connect_Begin(h, req, isConn, newOk) ==
    /\ service.pending[h] = 0
    /\ newOk => service.made < MaxClients
    /\ ServiceStep("Connect_Begin", h)
    /\ service' =
         LET svc == [service EXCEPT !.panicked = FALSE]
         IN  IF /\ req = "mavlink"
                /\ newOk
                /\ ~(svc.current # 0 /\ isConn)
                /\ ~ConnectCleanup(svc).panicked
             THEN [ConnectCleanup(svc) EXCEPT !.made = @ + 1,
                                              !.pending[h] = svc.made + 1,
                                              !.response = "waiting"]
             ELSE ConnectResult(svc, req, isConn, FALSE, FALSE)

\* part_003 lines 375-387: WaitForConnection returns; on its error the new
\* client is closed, otherwise SetMAVLinkClient stores it
Connect_Wait(h, waitOk) ==
    /\ service.pending[h] # 0
    /\ ServiceStep("Connect_Wait", h)
    /\ service' =
         LET svc == [service EXCEPT !.panicked = FALSE, !.pending[h] = 0]
         IN  IF waitOk
             THEN [svc EXCEPT !.current = service.pending[h],
                              !.response = "Connected"]
             ELSE [ServiceClose(svc, service.pending[h])
                      EXCEPT !.response = "Connection timeout"]

NextConcurrent ==
    \/ \E h \in 1..NumHandlers, req \in ConnectRequests, isConn \in BOOLEAN,
          newOk \in BOOLEAN : Connect_Begin(h, req, isConn, newOk)
    \/ \E h \in 1..NumHandlers, waitOk \in BOOLEAN : Connect_Wait(h, waitOk)
    \/ Disconnect

SpecConcurrent == Init /\ [][NextConcurrent]_vars

----------------------------------------------------------------------------
(***************************************************************************)
(* Mission progress: MISSION_CURRENT, GetMissionProgress and the status    *)
(* the mission service derives from it.                                    *)
(***************************************************************************)
MaxCurrentSeq == 3     \* MISSION_CURRENT sequence numbers 0..MaxCurrentSeq

\* the handler storing the sequence number in the upload session's index too
handleMissionCurrent_SessionIndex(seq) ==
    /\ LockFree
    /\ last' = Op("handleMissionCurrent", seq)
    /\ missionState' = [missionState EXCEPT !.CurrentWaypoint = seq,
                                            !.CurrentIndex = seq,
                                            !.MissionActive = (seq >= 0)]
    /\ sent' = <<>>
    /\ logged' = <<"Current mission waypoint">>
    /\ UNCHANGED <<now, connected, armed, systemID, lastHeartbeat, telemetry,
                   chanVars, callerVars, extVars>>

\* lines 482-489: under the lock, the current waypoint is the message's
\* sequence number and the mission is active when that number is >= 0 (the
\* field is unsigned)
handleMissionCurrent(seq) ==
    /\ LockFree
    /\ last' = Op("handleMissionCurrent", seq)
    /\ missionState' = [missionState EXCEPT !.CurrentWaypoint = seq,
                                            !.MissionActive = (seq >= 0)]
    /\ sent' = <<>>
    /\ logged' = <<"Current mission waypoint">>
    /\ UNCHANGED <<now, connected, armed, systemID, lastHeartbeat, telemetry,
                   chanVars, callerVars, extVars>>

\* lines 707-711: under the read lock, return CurrentWaypoint, TotalWaypoints
\* and MissionActive
GetMissionProgress(p) ==
    /\ pc[p] = "idle"
    /\ LockFree
    /\ last' = Op("GetMissionProgress", p)
    /\ Return(p, Err("progress", [current |-> missionState.CurrentWaypoint,
                                  total |-> missionState.TotalWaypoints,
                                  active |-> missionState.MissionActive]))
    /\ sent' = <<>>
    /\ logged' = <<>>
    /\ UNCHANGED <<now, clientVars, chanVars, pc, local, extVars>>

\* MissionServer.GetProgress, lines 304-313: the status derived from the
\* three values GetMissionProgress returned
GetProgressStatus(currentWaypoint, totalWaypoints, active) ==
    IF ~active THEN "STATUS_IDLE"
    ELSE IF currentWaypoint >= 0 /\ currentWaypoint < totalWaypoints
    THEN "STATUS_IN_PROGRESS"
    ELSE IF currentWaypoint >= totalWaypoints THEN "STATUS_COMPLETED"
    ELSE "STATUS_IDLE"

\* one caller uploading missions and reading the progress, against the
\* vehicle's requests, acknowledgments and progress messages
NextProgress ==
    \/ \E p \in CommandCallers, w \in WaypointLists : UploadMission(p, w)
    \/ \E p \in CommandCallers : UploadMission_SendCount(p, TRUE)
    \/ \E p \in CommandCallers : UploadMission_Receive(p)
    \/ \E s \in 0..MaxWaypoints, ok \in BOOLEAN : handleMissionRequestInt(s, ok)
    \/ \E t \in AckTypes : handleMissionAck(t)
    \/ \E s \in 0..MaxCurrentSeq : handleMissionCurrent(s)
    \/ \E p \in CommandCallers : GetMissionProgress(p)

SpecProgress == Init /\ [][NextProgress]_vars

----------------------------------------------------------------------------
(***************************************************************************)
(* MissionServer.StartMission: the connection test, client.SetMode with    *)
(* the AUTO/MISSION mode, then client.StartMission(0).  Each of the two    *)
(* client calls tests IsConnected itself before it writes.                 *)
(***************************************************************************)

\* part_001 line 132: PX4_MAIN_MODE_AUTO | (PX4_AUTO_MODE_MISSION << 16)
autoMissionMode == BitOr(PX4_MAIN_MODE_AUTO, ShiftLeft16(PX4_AUTO_MODE_MISSION))

\* a step of the handler run for caller p, from position `from`
MissionServerStep(p, name, from) ==
    /\ pc[p] = from
    /\ LockFree
    /\ last' = Op(name, p)
    /\ connected' = IsConnectedValue
    /\ logged' = <<>>
    /\ UNCHANGED <<now, armed, systemID, lastHeartbeat, telemetry, missionState,
                   chanVars, local, extVars>>

\* part_001 lines 113-129: the handler's own IsConnected test
MissionServer_StartMission(p) ==
    /\ MissionServerStep(p, "MissionServer_StartMission", "idle")
    /\ sent' = <<>>
    /\ IF IsConnectedValue
       THEN /\ pc' = [pc EXCEPT ![p] = "start_mode"]
            /\ NoReturn
       ELSE /\ Return(p, Err("Drone is not connected", 0))
            /\ UNCHANGED pc

\* the handler going on to the set-current message whatever SetMode returned
MissionServer_StartMission_SetMode_ErrorIgnored(p, ok) ==
    /\ MissionServerStep(p, "MissionServer_StartMission_SetMode", "start_mode")
    /\ sent' = IF IsConnectedValue
               THEN <<Write(CommandMsg("SetMode", systemID, autoMissionMode), ok)>>
               ELSE <<>>
    /\ pc' = [pc EXCEPT ![p] = "start_current"]
    /\ NoReturn

\* part_001 lines 131-138 with client.SetMode (client.go:820-841): the mode
\* change is written when the client is connected; on an error of SetMode the
\* handler returns the failure
MissionServer_StartMission_SetMode(p, ok) ==
    /\ MissionServerStep(p, "MissionServer_StartMission_SetMode", "start_mode")
    /\ sent' = IF IsConnectedValue
               THEN <<Write(CommandMsg("SetMode", systemID, autoMissionMode), ok)>>
               ELSE <<>>
    /\ IF IsConnectedValue /\ ok
       THEN /\ pc' = [pc EXCEPT ![p] = "start_current"]
            /\ NoReturn
       ELSE /\ pc' = [pc EXCEPT ![p] = "idle"]
            /\ Return(p, Err("Failed to set AUTO mode", 0))

\* part_001 lines 140-153 with client.StartMission(0) (client.go:686-704)
MissionServer_StartMission_SetCurrent(p, ok) ==
    /\ MissionServerStep(p, "MissionServer_StartMission_SetCurrent", "start_current")
    /\ sent' = IF IsConnectedValue
               THEN <<Write(CommandMsg("StartMission", systemID, 0), ok)>>
               ELSE <<>>
    /\ pc' = [pc EXCEPT ![p] = "idle"]
    /\ Return(p, IF IsConnectedValue /\ ok
                 THEN Err("Mission started successfully", 0)
                 ELSE Err("Failed to start mission", 0))

\* StartMission requests against the heartbeats and the clock
NextStart ==
    \/ \E p \in Callers : MissionServer_StartMission(p)
    \/ \E p \in Callers, ok \in BOOLEAN : MissionServer_StartMission_SetMode(p, ok)
    \/ \E p \in Callers, ok \in BOOLEAN : MissionServer_StartMission_SetCurrent(p, ok)
    \/ \E s \in SysIDs, m \in CustomModes :
          handleHeartbeat(s, 81 + MAV_MODE_FLAG_SAFETY_ARMED, m)
    \/ Tick(ConnTick, MaxConnTime)

SpecStart == Init /\ [][NextStart]_vars

----------------------------------------------------------------------------
(***************************************************************************)
(* IsConnected statement by statement.  Several callers hold the read lock *)
(* at once; the heartbeat handler takes the write lock, which it gets only *)
(* while no caller holds the read lock.                                    *)
(***************************************************************************)

\* caller p holds c.mu.RLock() inside IsConnected
InIsConnected(p) == pc[p] \in {"isconn_test", "isconn_store", "isconn_return"}

\* a reader step of caller p from position `from` to position `to`
IsConnectedStep(p, name, from, to) ==
    /\ pc[p] = from
    /\ last' = Op(name, p)
    /\ pc' = [pc EXCEPT ![p] = to]
    /\ sent' = <<>>
    /\ UNCHANGED <<now, armed, systemID, lastHeartbeat, telemetry, missionState,
                   chanVars, local, extVars>>

\* lines 722-723: c.mu.RLock()
IsConnected_RLock(p) ==
    /\ LockFree
    /\ IsConnectedStep(p, "IsConnected_RLock", "idle", "isconn_test")
    /\ NoReturn
    /\ logged' = <<>>
    /\ UNCHANGED connected

\* line 727: the test of c.connected and of the age of the last heartbeat
IsConnected_Test(p) ==
    /\ IsConnectedStep(p, "IsConnected_Test", "isconn_test",
                       IF connected /\ (now - lastHeartbeat) > HeartbeatStaleSec
                       THEN "isconn_store" ELSE "isconn_return")
    /\ NoReturn
    /\ logged' = <<>>
    /\ UNCHANGED connected

\* lines 728-729: c.connected = false, written under the read lock, and the
\* log call
IsConnected_Store(p) ==
    /\ IsConnectedStep(p, "IsConnected_Store", "isconn_store", "isconn_return")
    /\ NoReturn
    /\ connected' = FALSE
    /\ logged' = <<"Connection timeout (no heartbeat)">>

\* line 732 and the deferred RUnlock: return c.connected
IsConnected_Return(p) ==
    /\ IsConnectedStep(p, "IsConnected", "isconn_return", "idle")
    /\ Return(p, Bool(connected))
    /\ logged' = <<>>
    /\ UNCHANGED connected

\* lines 322-324: the handler runs once it has c.mu.Lock()
handleHeartbeat_Locked(sysID, baseMode, customMode) ==
    /\ \A p \in Callers : ~InIsConnected(p)
    /\ handleHeartbeat(sysID, baseMode, customMode)

\* every caller reading the connection state, against the heartbeats and the
\* clock
NextReaders ==
    \/ \E p \in Callers : IsConnected_RLock(p)
    \/ \E p \in Callers : IsConnected_Test(p)
    \/ \E p \in Callers : IsConnected_Store(p)
    \/ \E p \in Callers : IsConnected_Return(p)
    \/ \E s \in SysIDs, m \in CustomModes :
          handleHeartbeat_Locked(s, 81 + MAV_MODE_FLAG_SAFETY_ARMED, m)
    \/ Tick(ConnTick, MaxConnTime)

SpecReaders == Init /\ [][NextReaders]_vars

----------------------------------------------------------------------------
(***************************************************************************)
(* Properties of the mission-upload protocol (checked under SpecUpload).   *)
(***************************************************************************)

\* the kinds of value UploadMission returns through the completion channel
CompletionKinds == {"nil", "upload_failed", "item_send_failed"}

\* caller p has been accepted and has not returned
Pending(p) == pc[p] \in {"send_count", "count_failed", "select", "timed_out"}

\* caller p is blocked in the select with nothing to receive
Awaiting(p) == pc[p] = "select" /\ chans[p] = <<>>

\* C1: an UploadMission call made while the uploading flag is set returns
\* "upload already in progress" at once, writes nothing to the transport and
\* leaves the session (flag, waypoint list, total count, completion channel
\* and its buffer) as it was.
C1_SecondUploadRejected ==
    [][\A p \in Callers :
          (last' = Op("UploadMission", p) /\ missionState.Uploading)
          => /\ result'[p] = Err("upload_in_progress", 0)
             /\ pc'[p] = "idle"
             /\ sent' = <<>>
             /\ missionState' = missionState
             /\ chanVars' = chanVars]_vars

\* a second caller has just been rejected while the first one has not yet
\* sent MISSION_COUNT
C1_Witness ==
    \E p, q \in Callers :
        /\ p # q
        /\ last = Op("UploadMission", p)
        /\ result[p] = Err("upload_in_progress", 0)
        /\ pc[q] = "send_count"
        /\ missionState.UploadComplete = q

\* C2: at most one accepted UploadMission call is waiting for its completion
\* signal.
C2_AtMostOneAwaiting ==
    Cardinality({p \in Callers : Awaiting(p)}) <= 1

\* C3: while a session is in progress, a request for an in-range sequence
\* number k makes the handler write exactly one MISSION_ITEM_INT, built from
\* the waypoint at index k of the list; an accepted MISSION_ACK then puts the
\* nil error into the session's channel, and the caller that receives from
\* the channel returns what it holds.
C3_HappyPath ==
    [][/\ \A k \in 0..MaxWaypoints :
            (/\ last' = Op("handleMissionRequestInt", k)
             /\ missionState.Uploading
             /\ k < Len(missionState.Waypoints))
            => /\ Len(sent') = 1
               /\ sent'[1].msg.type = "MISSION_ITEM_INT"
               /\ sent'[1].msg.X = missionState.Waypoints[k + 1].Latitude * 10000000
       /\ (last' = Op("handleMissionAck", MAV_MISSION_ACCEPTED) /\ missionState.Uploading)
            => /\ missionState.UploadComplete # NoChan
               /\ chans'[missionState.UploadComplete] = <<NilErr>>
       /\ \A p \in Callers :
            (last' = Op("UploadMission_Receive", p) /\ chans[p] = <<NilErr>>)
            => (result'[p] = NilErr /\ pc'[p] = "idle")]_vars

\* with MISSION_COUNT sent and the caller waiting, the request for the last
\* waypoint of a full-length list has just been answered with its item
C3_Witness ==
    /\ last = Op("handleMissionRequestInt", MaxWaypoints - 1)
    /\ missionState.Uploading
    /\ Len(missionState.Waypoints) = MaxWaypoints
    /\ Len(sent) = 1
    /\ sent[1].ok
    /\ sent[1].msg.X = MaxWaypoints * 10000000
    /\ missionState.UploadComplete # NoChan
    /\ pc[missionState.UploadComplete] = "select"

\* C4: while the uploading flag is set there is a pending call whose channel
\* is the session's and is empty; a MISSION_ACK then resets the flag and puts
\* into that channel nil when its code is the accepted one and otherwise the
\* failure carrying the code; the caller returns what it receives.
C4_AckCompletes ==
    /\ [](missionState.Uploading =>
            /\ missionState.UploadComplete # NoChan
            /\ Pending(missionState.UploadComplete)
            /\ local[missionState.UploadComplete].uploadComplete
                   = missionState.UploadComplete
            /\ chans[missionState.UploadComplete] = <<>>)
    /\ [][/\ \A t \in AckTypes :
               (last' = Op("handleMissionAck", t) /\ missionState.Uploading)
               => /\ ~missionState'.Uploading
                  /\ listen' = "running"
                  /\ chans'[missionState.UploadComplete] =
                        <<IF t = MAV_MISSION_ACCEPTED
                          THEN Err("nil", 0)
                          ELSE Err("upload_failed", t)>>
          /\ \A p \in Callers :
               last' = Op("UploadMission_Receive", p)
               => (result'[p] = Head(chans[p]) /\ pc'[p] = "idle")]_vars

\* a pending call has just returned the failure carrying a rejection code
C4_Witness ==
    \E p \in Callers :
        /\ last = Op("UploadMission_Receive", p)
        /\ result[p] = Err("upload_failed", MaxAckType)
        /\ ~missionState.Uploading

\* an acknowledgment handled while the uploading flag is reset changes
\* nothing and writes nothing
LateAckIgnored ==
    (last'.op = "handleMissionAck" /\ ~missionState.Uploading)
    => (UNCHANGED <<clientVars, chanVars, callerVars>> /\ sent' = <<>>)

\* the results with which an accepted UploadMission call ends
SessionEndKinds == CompletionKinds \cup {"timeout", "count_send_failed"}

C6_Timeout ==
    /\ \A p \in Callers :
          (pc[p] = "select" /\ local[p].timer <= MaxTime) ~> (pc[p] = "idle")
    /\ [](\A p \in Callers : pc[p] = "timed_out" => now >= local[p].timer)
    /\ [][\A p \in Callers :
            /\ (last' = Op("UploadMission_SendCount", p) /\ pc'[p] = "select")
               => local'[p].timer = now + UploadTimeoutSec
            /\ (pc[p] = "select" /\ pc'[p] \in {"select", "timed_out"})
               => local'[p].timer = local[p].timer
            /\ (pc[p] = "select" /\ pc'[p] = "idle")
               => (chans[p] # <<>> /\ result'[p] = Head(chans[p]))
            /\ (pc[p] = "select" /\ pc'[p] = "timed_out")
               => now >= local[p].timer
            /\ (result'[p].kind = "timeout" /\ pc[p] # "idle")
               => (pc[p] = "timed_out" /\ ~missionState'.Uploading)
            /\ (pc[p] = "timed_out" /\ pc'[p] # "timed_out")
               => (result'[p] = Err("timeout", 0) /\ pc'[p] = "idle")]_vars

\* a call whose signal was never fulfilled has just returned the timeout error
C6_Witness ==
    \E p \in Callers :
        /\ last = Op("UploadMission_Timeout", p)
        /\ result[p] = Err("timeout", 0)
        /\ fulfilled[p] = 0
        /\ now >= UploadTimeoutSec
        /\ ~missionState.Uploading

C26_HandlerNeverBlocks ==
    /\ [](listen # "blocked")
    /\ [][\A p \in Callers :
            fulfilled'[p] > fulfilled[p]
            => /\ last'.op \in {"handleMissionAck", "handleMissionRequestInt"}
               /\ missionState.UploadComplete = p
               /\ chans[p] = <<>>
               /\ Len(chans'[p]) = 1
               /\ listen' = "running"]_vars

\* an acknowledgment has just fulfilled the signal of a call that had already
\* taken its timeout branch and will not receive from it
C26_Witness ==
    \E p \in Callers :
        /\ last.op = "handleMissionAck"
        /\ pc[p] = "timed_out"
        /\ fulfilled[p] = 1
        /\ Len(chans[p]) = 1
        /\ listen = "running"

C28_BadRequestIgnored ==
    [][\A k \in 0..MaxWaypoints :
          (/\ last' = Op("handleMissionRequestInt", k)
           /\ ~missionState.Uploading \/ k >= Len(missionState.Waypoints))
          => /\ sent' = <<>>
             /\ missionState' = missionState
             /\ chanVars' = chanVars
             /\ callerVars' = callerVars]_vars

\* with a call waiting in the select on a full-length list, a request for the
\* sequence number one past the last waypoint has just been handled
C28_Witness ==
    /\ last = Op("handleMissionRequestInt", MaxWaypoints)
    /\ missionState.Uploading
    /\ Len(missionState.Waypoints) = MaxWaypoints
    /\ sent = <<>>
    /\ missionState.UploadComplete # NoChan
    /\ pc[missionState.UploadComplete] = "select"

\* C29: an acknowledgment completes only the session it answers.  The vehicle
\* answers a session only after it has received the session's MISSION_COUNT,
\* so an acknowledgment handled before that message has been written (or after
\* its write failed) answers an earlier session, and must fulfil nothing and
\* leave the uploading flag of the new session set.
C29_AckAnswersItsSession ==
    [][\A p \in Callers :
          (/\ last'.op = "handleMissionAck"
           /\ missionState.Uploading
           /\ missionState.UploadComplete = p
           /\ pc[p] \in {"send_count", "count_failed"})
          => /\ fulfilled'[p] = fulfilled[p]
             /\ missionState'.Uploading]_vars

\* C30: when an accepted UploadMission call returns, on whichever path, the
\* uploading flag is reset unless another caller's call is pending on a
\* session of its own; the flag is set only by an accepted UploadMission; and
\* a call is rejected only while another caller's call is pending.  A caller
\* that retries after its call returned is therefore never rejected on
\* account of its own earlier call.
C30_RetryNotRejected ==
    [][\A p \in Callers :
          /\ (pc[p] # "idle" /\ pc'[p] = "idle")
             => /\ result'[p].kind \in SessionEndKinds
                /\ \/ ~missionState'.Uploading
                   \/ /\ missionState'.UploadComplete \in Callers \ {p}
                      /\ pc'[missionState'.UploadComplete] # "idle"
          /\ (~missionState.Uploading /\ missionState'.Uploading)
             => last'.op = "UploadMission"
          /\ (last' = Op("UploadMission", p) /\ result'[p].kind = "upload_in_progress")
             => \E q \in Callers \ {p} :
                   /\ missionState.UploadComplete = q
                   /\ pc[q] # "idle"]_vars

\* a call whose MISSION_COUNT write failed has just returned its error, no
\* call is pending and the flag is reset
C30_Witness ==
    \E p \in Callers :
        /\ last = Op("UploadMission_CountFailed", p)
        /\ result[p] = Err("count_send_failed", 0)
        /\ \A q \in Callers : pc[q] = "idle"
        /\ missionState.UploadComplete = p
        /\ ~missionState.Uploading

\* C31: the mission item written in answer to a request for sequence number
\* k carries the sequence number k, whatever waypoint list the session was
\* opened with.
C31_ItemCarriesRequestedSeq ==
    [][\A k \in 0..MaxWaypoints :
          (/\ last' = Op("handleMissionRequestInt", k)
           /\ sent' # <<>>)
          => /\ sent'[1].msg.type = "MISSION_ITEM_INT"
             /\ sent'[1].msg.Seq = k]_vars

----------------------------------------------------------------------------
(***************************************************************************)
(* Properties of connection tracking and commands (checked under SpecConn) *)
(***************************************************************************)

\* C8: the step that enters a command (any of the nine) and the IsConnected
\* check that follows it write nothing to the transport; a check that finds
\* the client not connected (no heartbeat yet, or the last one more than 3
\* seconds old) ends the call with the not-connected error; and nothing else
\* returns that error.
C8_NotConnectedNoSend ==
    [][\A p \in Callers :
          /\ (pc[p] # "cmd_check" /\ pc'[p] = "cmd_check")
             => /\ pc[p] = "idle"
                /\ local'[p].cmd \in CommandNames
                /\ last' = Op(local'[p].cmd, p)
                /\ sent' = <<>>
          /\ (/\ last' = Op("Command_Check", p)
              /\ (~connected \/ now - lastHeartbeat > HeartbeatStaleSec))
             => /\ pc[p] = "cmd_check"
                /\ result'[p] = Err("not_connected", 0)
                /\ pc'[p] = "idle"
                /\ sent' = <<>>
          /\ (result'[p] = Err("not_connected", 0) /\ result'[p] # result[p])
             => (last' = Op("Command_Check", p) /\ sent' = <<>>)]_vars

\* Arm has just returned not-connected on a client that never saw a heartbeat
C8_Witness ==
    \E p \in Callers :
        /\ last = Op("Command_Check", p)
        /\ local[p].cmd = "Arm"
        /\ result[p] = Err("not_connected", 0)
        /\ pc[p] = "idle"
        /\ systemID = 0
        /\ sent = <<>>

\* C9: IsConnected returns true when a heartbeat has been handled and is at
\* most 3 seconds old; it returns false, and stores false in the connected
\* flag, when the last heartbeat is more than 3 seconds old.
C9_Staleness ==
    [][\A p \in Callers :
          last' = Op("IsConnected", p)
          => /\ (systemID # 0 /\ now - lastHeartbeat <= HeartbeatStaleSec)
                => (result'[p] = Err("true", 0) /\ connected')
             /\ (now - lastHeartbeat > HeartbeatStaleSec)
                => (result'[p] = Err("false", 0) /\ ~connected')]_vars

\* a read more than 3 seconds after the only heartbeat has just returned false
C9_Witness ==
    \E p \in Callers :
        /\ last = Op("IsConnected", p)
        /\ result[p] = Err("false", 0)
        /\ systemID # 0
        /\ now - lastHeartbeat = HeartbeatStaleSec + 1
        /\ ~connected

\* C10: a heartbeat sets systemID to its sender and armed to bit 7 of its
\* base mode, nothing else changes them, and GetSystemID and IsArmed return
\* these fields.
C10_HeartbeatState ==
    /\ [](armed <=> ((telemetry.BaseMode \div 128) % 2 = 1))
    /\ [][/\ \A s \in SysIDs :
               last' = Op("handleHeartbeat", s) => systemID' = s
          /\ last'.op # "handleHeartbeat"
               => UNCHANGED <<systemID, armed, telemetry>>
          /\ \A p \in Callers :
               /\ last' = Op("GetSystemID", p)
                  => result'[p] = Err("uint8", systemID)
               /\ last' = Op("IsArmed", p)
                  => result'[p] = (IF armed THEN Err("true", 0)
                                            ELSE Err("false", 0))]_vars

\* IsArmed has just returned true after a heartbeat of the highest system id
\* with the armed bit set
C10_Witness ==
    \E p \in Callers :
        /\ last = Op("IsArmed", p)
        /\ result[p] = Err("true", 0)
        /\ systemID = MaxSysID
        /\ telemetry.BaseMode = 81 + MAV_MODE_FLAG_SAFETY_ARMED

\* C11: a heartbeat makes one "armed status changed" log call when its armed
\* bit differs from the armed value held before it, and none when it is the
\* same; no other step makes that call.  (So the calls made over a sequence
\* of heartbeats are as many as the heartbeats that change the value.)
C11_ArmedLogEdge ==
    [][LET n == Cardinality({i \in DOMAIN logged' :
                               logged'[i] = "Armed status changed"})
           bit == (telemetry'.BaseMode \div MAV_MODE_FLAG_SAFETY_ARMED) % 2 = 1
       IN  IF last'.op = "handleHeartbeat"
           THEN /\ armed' = bit
                /\ n = (IF bit # armed THEN 1 ELSE 0)
           ELSE n = 0]_vars

\* an armed heartbeat has just been handled on a client that was connected
\* and armed already, and nothing was logged
C11_Witness ==
    /\ last.op = "handleHeartbeat"
    /\ armed
    /\ telemetry.BaseMode = 81 + MAV_MODE_FLAG_SAFETY_ARMED
    /\ logged = <<>>

----------------------------------------------------------------------------
(***************************************************************************)
(* Properties of the mode codec (checked under SpecCodec).                 *)
(***************************************************************************)

\* C12: the encoder accepts each of the ten supported generic modes, and
\* decoding the value it returns gives the mode back.
C12_RoundTrip ==
    /\ (codec.op = "encode" /\ codec.arg \in SupportedModes) => ~codec.err
    /\ (codec.op = "encode" /\ codec.arg \notin SupportedModes) => codec.err
    /\ codec.op = "roundtrip" => (codec.arg \in SupportedModes /\ codec.mode = codec.arg)

\* RETURN_HOME has been encoded as 4 | (5 << 16) and decoded again
C12_Witness ==
    /\ codec.op = "roundtrip"
    /\ codec.arg = "RETURN_HOME"
    /\ codec.raw = 327684
    /\ codec.mode = "RETURN_HOME"

\* the raw values the encoder returns for the supported modes
Encodings == {mapFlightModeToPX4(m).value : m \in SupportedModes}

-----------------------------------------------------------------------------
(***************************************************************************)
(* Properties of the telemetry snapshot                                    *)
(***************************************************************************)

\* C14: a telemetry message of kind K sets exactly the snapshot fields owned
\* by K (global position: position and velocity; attitude: roll, pitch, yaw;
\* VFR HUD: heading, ground speed, vertical speed; system status: battery and
\* sensor health; raw GPS: accuracy and satellite count) and LastUpdate; every
\* other telemetry field, the connection flags and the mission state are as
\* they were before the message.
C14_HandlerFrame ==
    [][LET owned ==
             [k \in {"handleGlobalPosition", "handleAttitude", "handleVfrHud",
                     "handleSysStatus", "handleGpsRaw"} |->
                 CASE k = "handleGlobalPosition" ->
                        {"Latitude", "Longitude", "Altitude",
                         "VelocityX", "VelocityY", "VelocityZ"}
                   [] k = "handleAttitude" -> {"Roll", "Pitch", "Yaw"}
                   [] k = "handleVfrHud" ->
                        {"Heading", "GroundSpeed", "VerticalSpeed"}
                   [] k = "handleSysStatus" ->
                        {"BatteryVoltage", "BatteryCurrent", "BatteryRemaining",
                         "SensorsHealthy"}
                   [] k = "handleGpsRaw" -> {"GPSAccuracy", "SatelliteCount"}]
           flags == <<connected, armed, systemID, lastHeartbeat, missionState>>
       IN  /\ last'.op \in DOMAIN owned =>
                /\ flags' = flags
                /\ \A f \in DOMAIN telemetry \ owned[last'.op] :
                       telemetry'[f] = telemetry[f]
           /\ last'.op = "TelemetryHandler_Return" =>
                LET K == handling.op
                    set == Assigned(K, handling.msg)
                IN  /\ flags' = flags
                    /\ {set[i][1] : i \in DOMAIN set} = owned[K]
                    /\ \A i \in DOMAIN set : telemetry'[set[i][1]] = set[i][2]
                    /\ telemetry'.LastUpdate = now
                    /\ \A f \in DOMAIN telemetry \ (owned[K] \cup {"LastUpdate"}) :
                           telemetry'[f] = handling.before[f]]_vars

\* a message has been applied after a heartbeat and a message of another
\* kind, whose fields it has left in place
C14_Witness ==
    /\ last.op = "TelemetryHandler_Return"
    /\ connected
    /\ telemetry.Latitude # Ratio(0, 1)
    /\ telemetry.Roll # Ratio(0, 1)
    /\ telemetry.LastUpdate > 0

\* C15: whatever the interleaving of GetTelemetry with the handlers, the
\* snapshot returned is the telemetry state at a message boundary, the state
\* after a whole number of fully applied messages: never the state in the
\* middle of a message, with some of its fields written and others not.
C15_WholeMessages ==
    [][last'.op = "GetTelemetry" =>
         LET r == result'[last'.arg]
         IN  /\ r.kind = "TelemetryData"
             /\ r.code = (IF handling.op = "none" THEN telemetry
                          ELSE handling.before)
             /\ r.code.Latitude.num = r.code.Longitude.num
             /\ r.code.Latitude.num = r.code.VelocityZ.num
             /\ r.code.Roll.num = r.code.Yaw.num]_vars

\* a reader holds a snapshot with a position in it while a handler is in the
\* middle of the next message
C15_Witness ==
    \E p \in CommandCallers :
        /\ result[p].kind = "TelemetryData"
        /\ result[p].code.Latitude # Ratio(0, 1)
        /\ listen = "handling"
        /\ telemetry # handling.before

\* C16: the snapshot GetTelemetry returned is a copy; the messages processed
\* after the call do not change the value the caller holds.
C16_SnapshotIsCopy ==
    [][LET held(r, t) == IF r.kind = "*TelemetryData" THEN t ELSE r.code
       IN  \A p \in CommandCallers :
               (/\ result[p].kind \in {"TelemetryData", "*TelemetryData"}
                /\ last'.op \in {"handleGlobalPosition", "handleAttitude",
                                 "TelemetryHandler_Return"})
               => /\ result'[p].kind = result[p].kind
                  /\ held(result'[p], telemetry') = held(result[p], telemetry)]_vars

\* a caller holds a snapshot and a message processed since has made the
\* client's telemetry differ from it
C16_Witness ==
    \E p \in CommandCallers :
        /\ result[p].kind = "TelemetryData"
        /\ last.op = "TelemetryHandler_Return"
        /\ result[p].code # telemetry
        /\ result[p].code.Roll # telemetry.Roll

-----------------------------------------------------------------------------
(***************************************************************************)
(* Properties of the blocking calls, of the sends and of Close             *)
(***************************************************************************)

\* C17: WaitForConnection returns nil exactly when one of its polls, made with
\* the deadline not yet passed, found IsConnected true, and returns the
\* timeout error otherwise; a call that returns nil has sent exactly one
\* data-stream request before it returns.
C17_SuccessIffPolledInTime ==
    [][\A p \in CommandCallers :
         /\ last' = Op("WaitForConnection_Request", p) =>
              /\ result'[p] = NilErr
              /\ polled[p].inTime
              /\ Len(sent') = 1
              /\ sent'[1].msg.type = "REQUEST_DATA_STREAM"
              /\ sent'[1].ok
         /\ (last' = Op("WaitForConnection_Deadline", p) /\ pc'[p] = "idle") =>
              /\ result'[p] = Err("timeout waiting for heartbeat", 0)
              /\ ~polled[p].inTime]_vars

\* C18: every call of WaitForConnection and of UploadMission returns, whatever
\* the vehicle sends or fails to send: WaitForConnection once its deadline has
\* passed at the latest, UploadMission when its MISSION_COUNT write fails or
\* once the 30 seconds of its select have passed at the latest.  (The clock of
\* the model stops at MaxTime, so the deadlines looked at are those it reaches.)
C18_BlockingCallsReturn ==
    \A p \in Callers :
        /\ (pc[p] \in {"wait_poll", "wait_deadline", "wait_tick"}
              /\ local[p].timer < MaxTime) ~> (pc[p] = "idle")
        /\ (pc[p] = "wait_request") ~> (pc[p] = "idle")
        /\ (pc[p] = "send_count") ~> (pc[p] \in {"select", "count_failed"})
        /\ (pc[p] = "count_failed") ~> (pc[p] = "idle")
        /\ (pc[p] \in {"select", "timed_out"} /\ local[p].timer <= MaxTime)
              ~> (pc[p] = "idle")

\* a WaitForConnection call has returned the timeout error while an upload
\* whose timer has fired is about to return
C18_Witness ==
    \E p \in CommandCallers, q \in Callers :
        /\ result[p] = Err("timeout waiting for heartbeat", 0)
        /\ pc[q] = "timed_out"
        /\ now > MaxWaitTimeout

\* C19: a transport write that fails inside an operation a caller invoked (a
\* command, mission clear or start, the MISSION_COUNT write of UploadMission,
\* the data-stream request of WaitForConnection) is returned to that caller as
\* an error: the operation does not return nil after its write has failed.
C19_SendFailureReturned ==
    [][\A p \in Callers :
         /\ (/\ last'.op \in {"Command_Send", "UploadMission_SendCount",
                              "WaitForConnection_Request"}
             /\ last'.arg = p
             /\ \E i \in DOMAIN sent' : ~sent'[i].ok)
            => \/ result'[p].kind \notin {"nil", "none"}
               \/ pc'[p] = "count_failed"
         /\ (pc[p] = "count_failed" /\ pc'[p] # "count_failed")
            => result'[p].kind = "count_send_failed"]_vars

\* C20: a second Close on the same client is safe: the call does not panic,
\* it goes on to return nil, and the client is disconnected when it returns.
C20_SecondCloseSafe ==
    [][\A p \in Callers :
         /\ (last' = Op("Close", p) /\ shutdown.stopHeartbeat = "closed")
            => /\ pc'[p] = "close_select"
               /\ result'[p].kind # "panic: close of closed channel"
         /\ (last' = Op("Close_Node", p) /\ shutdown.node = "closed")
            => (result'[p] = NilErr /\ ~connected')]_vars

\* C21: once Close has been called, the sender task and the listen task both
\* terminate: the sender at the closed stop channel, the listen task when the
\* node is closed and its event channel with it.
C21_TasksTerminate ==
    (shutdown.stopHeartbeat = "closed")
        ~> (shutdown.sender = "stopped" /\ shutdown.listener = "stopped")

\* both tasks have stopped after a Close that returned nil
C21_Witness ==
    /\ shutdown.sender = "stopped"
    /\ shutdown.listener = "stopped"
    /\ shutdown.node = "closed"
    /\ last.op = "listen_Stop"

\* C22: Close signals the sender to stop, then waits for its confirmation or
\* for the bounded interval, then marks the client disconnected, then
\* releases the transport; the connected flag is false when the transport is
\* released.
C22_CloseOrder ==
    [][\A p \in Callers :
         /\ last' = Op("Close_Disconnect", p) =>
              /\ shutdown.stopHeartbeat = "closed"
              /\ shutdown.heartbeatDone = "closed" \/ now >= local[p].timer
              /\ shutdown.node = "open"
         /\ last' = Op("Close_Node", p) =>
              /\ shutdown.stopHeartbeat = "closed"
              /\ shutdown.node = "open" /\ shutdown'.node = "closed"
              /\ ~connected]_vars

\* C34: every IsConnected call made after Close has returned (the transport
\* is released in Close's last step) returns false, also when the listen task
\* handled a heartbeat while Close was running.
C34_DisconnectedAfterClose ==
    [][\A p \in Callers :
          (last' = Op("IsConnected", p) /\ shutdown.node = "closed")
          => result'[p] = Bool(FALSE)]_vars

-----------------------------------------------------------------------------
(***************************************************************************)
(* Properties of the connection service                                    *)
(***************************************************************************)

\* C23: a Connect that installs a client installs one it has just made, and a
\* client on which Close has been called is never the service layer's
\* current client afterwards, kept or used.
C23_ClosedClientNotCurrent ==
    [][/\ service'.current # 0 => service'.current \notin service'.closed
       /\ (last'.op = "Connect" /\ service'.current # service.current)
          => (service'.current = service.made + 1 /\ service'.made = service.made + 1)
       /\ ~service'.panicked]_vars

\* C25: once Close has released the transport the sender task writes nothing
\* more to it: the sender has stopped when Close releases the transport, and
\* no tick of the sender writes to a closed transport.
C25_NoWriteAfterRelease ==
    [][/\ (\E p \in Callers : last' = Op("Close_Node", p))
            => shutdown.sender = "stopped"
       /\ last'.op = "sendGroundStationMessages_Tick" => shutdown.node = "open"]_vars

\* the messages addressed to the vehicle: commands, setpoints and the
\* mission messages (the sender task's HEARTBEAT and SYSTEM_TIME are not)
VehicleDirected ==
    {"COMMAND_LONG", "SET_POSITION_TARGET_GLOBAL_INT", "MISSION_COUNT",
     "MISSION_ITEM_INT", "MISSION_CLEAR_ALL", "MISSION_SET_CURRENT"}

\* C33: no message addressed to the vehicle is written at a moment at which
\* IsConnected would return false (no heartbeat handled yet, or the last one
\* more than three seconds old).
C33_NoSendWhileDisconnected ==
    [][\A i \in 1..Len(sent') :
          sent'[i].msg.type \in VehicleDirected => IsConnectedValue]_vars

\* C35: with Close not called, the connected flag is true whenever a
\* heartbeat has been handled and is at most three seconds old, and an
\* IsConnected call that returns at such a moment returns true, whatever the
\* interleaving of the readers' statements with one another and with the
\* handler, and also after a reader has reset the flag: the next heartbeat
\* sets it again.
C35_SelfHealing ==
    /\ []((systemID # 0 /\ now - lastHeartbeat <= HeartbeatStaleSec) => connected)
    /\ [][/\ last'.op = "handleHeartbeat" => (connected' /\ lastHeartbeat' = now)
          /\ \A p \in Callers :
               (/\ last' = Op("IsConnected", p)
                /\ systemID # 0
                /\ now - lastHeartbeat <= HeartbeatStaleSec)
               => result'[p] = Bool(TRUE)
          /\ (connected /\ ~connected')
               => /\ last'.op = "IsConnected_Store"
                  /\ now - lastHeartbeat > HeartbeatStaleSec]_vars

\* a reader has returned true on a heartbeat handled after the flag had been
\* reset: the heartbeat is younger than the staleness bound allows the first
\* one to be
C35_Witness ==
    \E p \in Callers :
        /\ last = Op("IsConnected", p)
        /\ result[p] = Bool(TRUE)
        /\ lastHeartbeat > HeartbeatStaleSec
        /\ now - lastHeartbeat <= HeartbeatStaleSec

\* C36: whatever the sequence of Connect, Disconnect and shutdown requests,
\* Close is called at most once on a client instance: a request that calls
\* Close calls it on an instance that no earlier request has closed.
C36_CloseAtMostOnce ==
    [][last'.op \in {"Connect", "Disconnect", "Shutdown"}
          => /\ ~service'.panicked
             /\ \A c \in service'.closed \ service.closed :
                   c = service.current \/ c = service.made + 1]_vars

\* C37: with Connect requests served concurrently, every client instance
\* that has been made is the one Dependencies holds, or has been closed, or is
\* still with the request that made it (which will store or close it): no
\* instance is left running without anything referring to it.
C37_NoOrphanClient ==
    \A c \in 1..service.made :
        \/ c = service.current
        \/ c \in service.closed
        \/ \E h \in 1..NumHandlers : service.pending[h] = c

\* bit i of the mask m
Bit(m, i) == (m \div (2 ^ i)) % 2

-----------------------------------------------------------------------------
(***************************************************************************)
(* Properties of the lock discipline                                       *)
(***************************************************************************)

\* C24: every step that changes a mutable client field (connected, armed,
\* systemID, lastHeartbeat, telemetry, missionState) holds the client lock in
\* write mode; none changes a field under the read lock or without the lock.
C24_WritesUnderWriteLock ==
    [][clientVars' # clientVars => LockMode(last'.op) = "Lock"]_vars

-----------------------------------------------------------------------------
(***************************************************************************)
(* Properties of the mission progress                                      *)
(***************************************************************************)

\* C32: after an UploadMission of a list of N waypoints has returned success,
\* GetMissionProgress reports the total N, and the status derived from what
\* it reports is IN_PROGRESS exactly while the mission is active with current
\* waypoint k, 0 <= k < N, and COMPLETED only when k >= N.
C32_ProgressTotal ==
    [][\A p \in Callers :
          (/\ last' = Op("GetMissionProgress", p)
           /\ result[p].kind = "nil")
          => LET r == result'[p].code
                 N == Len(missionState.Waypoints)
                 status == GetProgressStatus(r.current, r.total, r.active)
             IN  /\ r.total = N
                 /\ (status = "STATUS_IN_PROGRESS")
                       <=> (r.active /\ 0 <= r.current /\ r.current < N)
                 /\ (status = "STATUS_COMPLETED") => r.current >= N]_vars

\* the fields of the upload session, and the progress fields
UploadSession ==
    <<missionState.Uploading, missionState.Waypoints, missionState.CurrentIndex,
      missionState.TotalCount, missionState.UploadComplete>>

ProgressFields ==
    <<missionState.CurrentWaypoint, missionState.TotalWaypoints,
      missionState.MissionActive>>

\* C38: handling MISSION_CURRENT sets the current waypoint and the active
\* flag and leaves the upload session (flag, waypoint list, index, count,
\* completion channel and its buffer, the callers) as it was; UploadMission
\* and the handling of waypoint requests and of acknowledgments leave the
\* progress fields as they were.
C38_ProgressIndependent ==
    [][/\ \A k \in 0..MaxCurrentSeq :
            last' = Op("handleMissionCurrent", k)
            => /\ missionState'.CurrentWaypoint = k
               /\ missionState'.MissionActive
               /\ UploadSession' = UploadSession
               /\ chanVars' = chanVars
               /\ callerVars' = callerVars
               /\ sent' = <<>>
       /\ last'.op \in {"UploadMission", "UploadMission_SendCount",
                        "UploadMission_Receive", "handleMissionRequestInt",
                        "handleMissionAck"}
            => ProgressFields' = ProgressFields]_vars

\* a MISSION_CURRENT has just been handled while a call waits in the select
\* on a session with a full-length list
C38_Witness ==
    /\ last = Op("handleMissionCurrent", MaxCurrentSeq)
    /\ missionState.CurrentWaypoint = MaxCurrentSeq
    /\ missionState.Uploading
    /\ Len(missionState.Waypoints) = MaxWaypoints
    /\ missionState.UploadComplete # NoChan
    /\ pc[missionState.UploadComplete] = "select"

-----------------------------------------------------------------------------
(***************************************************************************)
(* Properties of the mission service's StartMission                        *)
(***************************************************************************)

\* C39: the handler writes the set-current-waypoint message, for waypoint 0,
\* only after its own mode change, to AUTO with the MISSION sub-mode (4 in
\* the main-mode byte, 4 in the sub-mode byte), has been written with
\* success; when that write fails, or SetMode refuses to write, the handler
\* ends with the failure and writes no set-current-waypoint message.
C39_ModeBeforeSetCurrent ==
    [][\A p \in Callers :
          /\ last' = Op("MissionServer_StartMission_SetMode", p)
             => /\ sent' # <<>>
                   => sent'[1].msg = [type |-> "COMMAND_LONG", TargetSystem |-> systemID,
                                      Command |-> "MAV_CMD_DO_SET_MODE",
                                      Param |-> 4 + 4 * 65536]
                /\ (sent' # <<>> /\ sent'[1].ok) => pc'[p] = "start_current"
                /\ (sent' = <<>> \/ ~sent'[1].ok)
                   => (pc'[p] = "idle" /\ result'[p] = Err("Failed to set AUTO mode", 0))
          /\ (pc'[p] = "start_current" /\ pc[p] # "start_current")
             => (last' = Op("MissionServer_StartMission_SetMode", p) /\ sent'[1].ok)
          /\ (sent' # <<>> /\ sent'[1].msg.type = "MISSION_SET_CURRENT")
             => /\ last'.op = "MissionServer_StartMission_SetCurrent"
                /\ pc[last'.arg] = "start_current"
                /\ sent'[1].msg.Seq = 0
          /\ (pc[p] # "idle" /\ result'[p].kind = "Mission started successfully")
             => /\ last' = Op("MissionServer_StartMission_SetCurrent", p)
                /\ sent' # <<>>
                /\ sent'[1].ok]_vars

\* the handler has just written the set-current-waypoint message and reported
\* success
C39_Witness ==
    \E p \in Callers :
        /\ last = Op("MissionServer_StartMission_SetCurrent", p)
        /\ result[p] = Err("Mission started successfully", 0)
        /\ Len(sent) = 1
        /\ sent[1].msg.type = "MISSION_SET_CURRENT"
        /\ sent[1].ok

=============================================================================
